---- MODULE Spec2Model ----
(***************************************************************************)
(* Packaging workflow core of DbService (src/db/db_service.cpp): the       *)
(* status model of items, boxes and pallets, the assignment operations,    *)
(* the bulk import and the export pipelines, over a PostgreSQL database    *)
(* (driver QPSQL, transactions at the default READ COMMITTED level).       *)
(*                                                                         *)
(* A table row is named by the index of its bar_code: bar_code carries a   *)
(* unique index (the import's ON CONFLICT (bar_code) needs one), serial    *)
(* ids are opaque handles, so row k of a table is the row whose barcode    *)
(* is barcode k.  A table is the partial map  id -> status  of its rows.   *)
(* Outside SpecConn the shared connection is up: ensureConnected() returns *)
(* at its first test, and a statement fails only where the model says so.  *)
(***************************************************************************)
EXTENDS Integers, Sequences, FiniteSets, TLC

\* ------------------------------------------------------------------ bounds
NumItems == 2
NumBoxes == 2
NumPallets == 1
MaxIds == 2
MaxImportLen == 3
MaxPalletRows == 2
MaxConcRows == 3
NumLines == 1
NumImportLines == 2
NumUsers == 1
NumHashes == 2
NumRoles == 2
NumPerms == 2
MaxTextLen == 3
MaxJobRows == 3
NumExportPallets == 2
MaxBarcodeLen == 5
\* The fallback of cleanBarcodeForExport wants 20 characters before "93"; the
\* model scales the 20 so that barcodes of MaxBarcodeLen characters reach it.
ai93Min == 2
\* batchSize is 500 in the code; the model scales it so that an import of
\* MaxImportLen barcodes runs in more than one batch.
batchSize == 2

ItemIds == 1..NumItems
BoxIds == 1..NumBoxes
PalletIds == 1..NumPallets
LineIds == 1..NumLines
ImportLineIds == 1..NumImportLines
UserIds == 1..NumUsers
RoleIds == 1..NumRoles
PermIds == 1..NumPerms

\* ------------------------------------------------------------ status codes
Available == 0
Assigned == 1
Exported == 2
Empty == 0
Sealed == 1
New == 0
Complete == 1
BoxExport == 0
PalletExport == 1

\* ------------------------------------------------------------- sequences
Range(s) == {s[k] : k \in 1..Len(s)}

SeqsUpTo(S, n) == UNION {[1..k -> S] : k \in 0..n}

RECURSIVE Concat(_)
Concat(ss) == IF ss = <<>> THEN <<>> ELSE Head(ss) \o Concat(Tail(ss))

Min(a, b) == IF a < b THEN a ELSE b

\* The ids of S in ascending order (the order of a table scan).
RECURSIVE Ascending(_)
Ascending(S) ==
    IF S = {} THEN <<>>
    ELSE LET m == CHOOSE x \in S : \A y \in S : x <= y
         IN  <<m>> \o Ascending(S \ {m})

Clients == {1, 2}
MainClient == 1

Jobs == {1}

\* db         the committed rows of the database
\* lastError  lastError_ of each application instance (one DbService each)
\* ret        the call that has just returned and its value, until the caller
\*            takes it
\* client     the synchronous call in flight on each instance's shared connection
\* job        the background job in flight on its own connection
\* conn       isConnected() of each instance's shared connection
\* signals    the connectionLost / connectionRestored signals each instance has
\*            emitted during the call that has just returned
\* window     connected_, loggedIn_ and currentUser_ of the main window of the
\*            first instance
\* std::nullopt
Nullopt == [none |-> TRUE]

\* The state of the main window after construction, before tryAutoConnect.
NoWindow == [connected_ |-> FALSE, loggedIn_ |-> FALSE, currentUser_ |-> Nullopt]

VARIABLES db, lastError, ret, client, job, conn, signals, window

vars == <<db, lastError, ret, client, job, conn, signals, window>>

\* The database after the schema is created and before any import.
EmptyDb ==
    [items |-> <<>>, boxes |-> <<>>, pallets |-> <<>>,
     item_box_assignments |-> <<>>,
     pallet_box_assignments |-> <<>>,
     export_documents |-> <<>>,
     export_items |-> <<>>, export_boxes |-> <<>>, export_pallets |-> <<>>,
     docSeq |-> 0,
     production_line |-> [items |-> <<>>, boxes |-> <<>>, pallets |-> <<>>],
     users |-> <<>>, roles |-> <<>>, permissions |-> <<>>,
     user_roles |-> {}, role_permissions |-> <<>>]

\* ---------------------------------------------------------------- tables
HasRow(t, id) == id \in DOMAIN t

InsertRow(t, id, st) == [k \in DOMAIN t \cup {id} |-> IF k = id THEN st ELSE t[k]]

\* UPDATE t SET status = st WHERE id IN ids
SetStatus(t, ids, st) == [k \in DOMAIN t |-> IF k \in ids THEN st ELSE t[k]]

\* Faulty variant of the seal count: the assignment rows of every box count.
BoxItemCountAnyBox(d, id) == Len(d.item_box_assignments)

\* Faulty variant of the seal count: the rows of items count, assigned or not.
BoxItemCountAllItems(d, id) == Cardinality(DOMAIN d.items)

\* SELECT COUNT(*) FROM item_box_assignments iba JOIN boxes b ON iba.box_id = b.id
\* WHERE b.id = :id
BoxItemCount(d, id) ==
    Cardinality({k \in 1..Len(d.item_box_assignments) :
                    d.item_box_assignments[k][2] = id /\ HasRow(d.boxes, id)})

\* Faulty variant of the completion count: the rows of boxes count, assigned
\* to the pallet or not.
PalletBoxCountAllBoxes(d, id) == Cardinality(DOMAIN d.boxes)

\* SELECT COUNT(*) FROM pallet_box_assignments pba JOIN pallets p
\* ON pba.pallet_id = p.id WHERE p.id = :id
PalletBoxCount(d, id) ==
    Cardinality({k \in 1..Len(d.pallet_box_assignments) :
                    d.pallet_box_assignments[k][2] = id /\ HasRow(d.pallets, id)})

\* --------------------------------------------------- assignment engine
Done(d, ok, err) == [db |-> d, ok |-> ok, lastError |-> err]

\* SELECT id, status FROM boxes WHERE id = :id, then the two tests on it.
BoxMustBeEmpty(d, boxId) ==
    IF ~HasRow(d.boxes, boxId) THEN "Box not found"
    ELSE IF d.boxes[boxId] # 0 THEN "Box must be Empty"
    ELSE "ok"

\* Faulty variant of the item check: the status is not looked at.
ItemMustExist(d, itemId) ==
    IF ~HasRow(d.items, itemId) THEN "Item not found" ELSE "ok"

\* SELECT id, status FROM items WHERE id = :id, then the two tests on it.
ItemMustBeAvailable(d, itemId) ==
    IF ~HasRow(d.items, itemId) THEN "Item not found"
    ELSE IF d.items[itemId] # 0 THEN "Item must be Available"
    ELSE "ok"

\* Faulty variant of the assignment's writes: the box is sealed with the item.
CommitItemToBoxAndSeal(d, itemId, boxId) ==
    [d EXCEPT !.item_box_assignments = Append(@, <<itemId, boxId>>),
              !.items = SetStatus(@, {itemId}, Assigned),
              !.boxes = SetStatus(@, {boxId}, Sealed)]

\* INSERT INTO item_box_assignments; UPDATE items SET status = 1 WHERE id = :id;
\* COMMIT.  The UPDATE carries no test of the status it overwrites.
CommitItemToBox(d, itemId, boxId) ==
    [d EXCEPT !.item_box_assignments = Append(@, <<itemId, boxId>>),
              !.items = SetStatus(@, {itemId}, Assigned)]

assignItemToBox(d, le, itemId, boxId) ==
    LET b == BoxMustBeEmpty(d, boxId)
        i == ItemMustBeAvailable(d, itemId)
    IN  IF b # "ok" THEN Done(d, FALSE, b)
        ELSE IF i # "ok" THEN Done(d, FALSE, i)
        ELSE Done(CommitItemToBox(d, itemId, boxId), TRUE, le)

\* Faulty variant of the loop of assignItemsToBox: it stops at the first id
\* whose assignment fails.
RECURSIVE assignItemsLoopStopsAtFailure(_, _, _, _, _)
assignItemsLoopStopsAtFailure(d, le, itemIds, boxId, count) ==
    IF itemIds = <<>> THEN [db |-> d, count |-> count, lastError |-> le]
    ELSE LET r == assignItemToBox(d, le, Head(itemIds), boxId)
         IN  IF r.ok
             THEN assignItemsLoopStopsAtFailure(r.db, r.lastError, Tail(itemIds), boxId,
                                                count + 1)
             ELSE [db |-> r.db, count |-> count, lastError |-> r.lastError]

RECURSIVE assignItemsLoop(_, _, _, _, _)
assignItemsLoop(d, le, itemIds, boxId, count) ==
    IF itemIds = <<>> THEN [db |-> d, count |-> count, lastError |-> le]
    ELSE LET r == assignItemToBox(d, le, Head(itemIds), boxId)
         IN  assignItemsLoop(r.db, r.lastError, Tail(itemIds), boxId,
                             IF r.ok THEN count + 1 ELSE count)

assignItemsToBox(d, le, itemIds, boxId) == assignItemsLoop(d, le, itemIds, boxId, 0)

\* UPDATE boxes SET status = 1, sealed_at = NOW() WHERE id = :id AND status = 0
SealUpdate(d, id) ==
    IF HasRow(d.boxes, id) /\ d.boxes[id] = 0
    THEN Done([d EXCEPT !.boxes = SetStatus(@, {id}, Sealed)], TRUE, "")
    ELSE Done(d, FALSE, "Box not found or not Empty")

sealBox(d, le, id) ==
    IF BoxItemCount(d, id) = 0 THEN Done(d, FALSE, "Box is empty - cannot seal")
    ELSE LET u == SealUpdate(d, id)
         IN  Done(u.db, u.ok, IF u.ok THEN le ELSE u.lastError)

\* SELECT id, status FROM pallets WHERE id = :id, then the two tests on it.
PalletMustBeNew(d, palletId) ==
    IF ~HasRow(d.pallets, palletId) THEN "Pallet not found"
    ELSE IF d.pallets[palletId] # 0 THEN "Pallet must be New"
    ELSE "ok"

BoxMustBeSealed(d, boxId) ==
    IF ~HasRow(d.boxes, boxId) THEN "Box not found"
    ELSE IF d.boxes[boxId] # 1 THEN "Box must be Sealed"
    ELSE "ok"

\* INSERT INTO pallet_box_assignments (box_id, pallet_id, assigned_at); COMMIT
CommitBoxToPallet(d, boxId, palletId) ==
    [d EXCEPT !.pallet_box_assignments = Append(@, <<boxId, palletId>>)]

assignBoxToPallet(d, le, boxId, palletId) ==
    LET p == PalletMustBeNew(d, palletId)
        b == BoxMustBeSealed(d, boxId)
    IN  IF p # "ok" THEN Done(d, FALSE, p)
        ELSE IF b # "ok" THEN Done(d, FALSE, b)
        ELSE Done(CommitBoxToPallet(d, boxId, palletId), TRUE, le)

\* UPDATE pallets SET status = 1 WHERE id = :id AND status = 0; a failure of
\* this update returns false and leaves lastError_ as it was.
CompleteUpdate(d, id) ==
    IF HasRow(d.pallets, id) /\ d.pallets[id] = 0
    THEN Done([d EXCEPT !.pallets = SetStatus(@, {id}, Complete)], TRUE, "")
    ELSE Done(d, FALSE, "")

completePallet(d, le, id) ==
    IF PalletBoxCount(d, id) = 0 THEN Done(d, FALSE, "Pallet has no boxes")
    ELSE LET u == CompleteUpdate(d, id)
         IN  Done(u.db, u.ok, le)

\* ------------------------------------------------------------ bulk import
Table(d, tableName) ==
    IF tableName = "items" THEN d.items
    ELSE IF tableName = "boxes" THEN d.boxes ELSE d.pallets

WithTable(d, tableName, t) ==
    IF tableName = "items" THEN [d EXCEPT !.items = t]
    ELSE IF tableName = "boxes" THEN [d EXCEPT !.boxes = t]
    ELSE [d EXCEPT !.pallets = t]

NumBatches(n) == (n + batchSize - 1) \div batchSize

\* barcodes.mid(i, qMin(batchSize, barcodes.size() - i)) for the k-th batch
Batch(barcodes, k) ==
    SubSeq(barcodes, (k - 1) * batchSize + 1, Min(k * batchSize, Len(barcodes)))

NewImport(total) ==
    [totalRecords |-> total, importedCount |-> 0, skippedCount |-> 0,
     errorCount |-> 0, errors |-> <<>>, processed |-> 0, progress |-> <<>>,
     inserted |-> {}]

\* Faulty variant of one pass of the batch loop: the rows this transaction
\* has inserted in earlier batches are not seen by the conflict test.
ImportBatchForgetsOwnRows(r, visible, batch, fails) ==
    LET new == Range(batch) \ visible
        affected == Cardinality(new)
        q == IF fails
             THEN [r EXCEPT !.errorCount = @ + Len(batch),
                            !.errors = Append(@, "query error")]
             ELSE [r EXCEPT !.importedCount = @ + affected,
                            !.skippedCount = @ + (Len(batch) - affected),
                            !.inserted = @ \cup new]
    IN  [q EXCEPT !.processed = @ + Len(batch),
                  !.progress = Append(@, <<r.processed + Len(batch), r.totalRecords>>)]


\* Faulty variant of one pass of the batch loop: a batch whose INSERT fails
\* reports no progress.
ImportBatchSilentOnFailure(r, visible, batch, fails) ==
    LET new == Range(batch) \ (visible \cup r.inserted)
        affected == Cardinality(new)
    IN  IF fails
        THEN [r EXCEPT !.errorCount = @ + Len(batch),
                       !.errors = Append(@, "query error"),
                       !.processed = @ + Len(batch)]
        ELSE [r EXCEPT !.importedCount = @ + affected,
                       !.skippedCount = @ + (Len(batch) - affected),
                       !.inserted = @ \cup new,
                       !.processed = @ + Len(batch),
                       !.progress = Append(@, <<r.processed + Len(batch), r.totalRecords>>)]


\* Faulty variant of one pass of the batch loop: ON CONFLICT (bar_code) DO
\* UPDATE, a conflicting row is written anew.
ImportBatchOverwrites(r, visible, batch, fails) ==
    LET new == Range(batch) \ (visible \cup r.inserted)
        affected == Cardinality(new)
        q == IF fails
             THEN [r EXCEPT !.errorCount = @ + Len(batch),
                            !.errors = Append(@, "query error")]
             ELSE [r EXCEPT !.importedCount = @ + affected,
                            !.skippedCount = @ + (Len(batch) - affected),
                            !.inserted = @ \cup Range(batch)]
    IN  [q EXCEPT !.processed = @ + Len(batch),
                  !.progress = Append(@, <<r.processed + Len(batch), r.totalRecords>>)]


\* Faulty variant of one pass of the batch loop: a failed batch counts as one
\* error.
ImportBatchCountsOneError(r, visible, batch, fails) ==
    LET new == Range(batch) \ (visible \cup r.inserted)
        affected == Cardinality(new)
        q == IF fails
             THEN [r EXCEPT !.errorCount = @ + 1,
                            !.errors = Append(@, "query error")]
             ELSE [r EXCEPT !.importedCount = @ + affected,
                            !.skippedCount = @ + (Len(batch) - affected),
                            !.inserted = @ \cup new]
    IN  [q EXCEPT !.processed = @ + Len(batch),
                  !.progress = Append(@, <<r.processed + Len(batch), r.totalRecords>>)]

\* One pass of the batch loop.  INSERT ... ON CONFLICT (bar_code) DO NOTHING adds
\* the barcodes of the batch that neither the table nor this transaction holds;
\* `visible` is the set of barcodes of the rows the statement can see.
ImportBatch(r, visible, batch, fails) ==
    LET new == Range(batch) \ (visible \cup r.inserted)
        affected == Cardinality(new)
        q == IF fails
             THEN [r EXCEPT !.errorCount = @ + Len(batch),
                            !.errors = Append(@, "query error")]
             ELSE [r EXCEPT !.importedCount = @ + affected,
                            !.skippedCount = @ + (Len(batch) - affected),
                            !.inserted = @ \cup new]
    IN  [q EXCEPT !.processed = @ + Len(batch),
                  !.progress = Append(@, <<r.processed + Len(batch), r.totalRecords>>)]

\* Faulty variant of the batch loop: it ends at the first batch that fails.
RECURSIVE ImportLoopStopsAtFailure(_, _, _, _, _)
ImportLoopStopsAtFailure(r, visible, barcodes, failing, k) ==
    IF k > NumBatches(Len(barcodes)) \/ r.errorCount > 0 THEN r
    ELSE ImportLoopStopsAtFailure(ImportBatch(r, visible, Batch(barcodes, k), k \in failing),
                                  visible, barcodes, failing, k + 1)

RECURSIVE ImportLoop(_, _, _, _, _)
ImportLoop(r, visible, barcodes, failing, k) ==
    IF k > NumBatches(Len(barcodes)) THEN r
    ELSE ImportLoop(ImportBatch(r, visible, Batch(barcodes, k), k \in failing),
                    visible, barcodes, failing, k + 1)

\* The rows the run's INSERT statements have added, as the commit stores them.
RECURSIVE InsertRows(_, _)
InsertRows(t, ids) ==
    IF ids = {} THEN t
    ELSE LET id == CHOOSE x \in ids : TRUE
         IN  InsertRows(InsertRow(t, id, 0), ids \ {id})

\* The production_line column of the rows the run has added.
WithLines(d, tableName, ids, lineId) ==
    [d EXCEPT !.production_line[tableName] =
                  [k \in DOMAIN @ \cup ids |-> IF k \in ids THEN lineId ELSE @[k]]]

\* db.commit(): the rows of the run become rows of the table.
CommitImport(d, tableName, r, lineId) ==
    WithLines(WithTable(d, tableName, InsertRows(Table(d, tableName), r.inserted)),
              tableName, r.inserted, lineId)

\* Faulty variant of the end of an import: commit whatever the error count.
ImportEndAlwaysCommits(d, tableName, r, lineId) == CommitImport(d, tableName, r, lineId)

\* if (result.errorCount == 0) db.commit(); else db.rollback();
ImportEnd(d, tableName, r, lineId) ==
    IF r.errorCount = 0 THEN CommitImport(d, tableName, r, lineId) ELSE d

ImportResult(r) ==
    [totalRecords |-> r.totalRecords, importedCount |-> r.importedCount,
     skippedCount |-> r.skippedCount, errorCount |-> r.errorCount,
     errors |-> r.errors, progress |-> r.progress]

\* doImport on the parsed barcode list; `opened` says whether the job's own
\* connection opens, `failing` names the batches whose INSERT fails.  effects
\* lists what the job does with its own connection: "open" is the call of
\* createThreadLocalConnection, the others are the calls of db.transaction(),
\* db.commit() and db.rollback().
doImport(d, tableName, barcodes, lineId, opened, failing) ==
    IF barcodes = <<>>
    THEN [db |-> d, effects |-> <<>>,
          result |-> ImportResult([NewImport(0) EXCEPT
                                      !.errors = <<"No valid barcodes found">>])]
    ELSE IF ~opened
    THEN [db |-> d, effects |-> <<"open">>,
          result |-> ImportResult([NewImport(Len(barcodes)) EXCEPT
                                      !.errors = <<"Failed to create database connection">>])]
    ELSE LET r == ImportLoop(NewImport(Len(barcodes)), DOMAIN Table(d, tableName),
                             barcodes, failing, 1)
         IN  [db |-> ImportEnd(d, tableName, r, lineId),
              effects |-> <<"open", "transaction",
                            IF r.errorCount = 0 THEN "commit" ELSE "rollback">>,
              result |-> ImportResult(r)]

\* ---------------------------------------------------------- export pipeline
NoResult ==
    [success |-> FALSE, documentId |-> 0, error |-> "",
     itemsExported |-> 0, boxesExported |-> 0, palletsExported |-> 0]

Failed(d, msg, effects) ==
    [db |-> d, effects |-> effects, result |-> [NoResult EXCEPT !.error = msg]]

\* Faulty variant of the eligibility count: rows of any status are counted.
CountAnyStatus(t, ids, st) ==
    Cardinality({id \in Range(ids) : HasRow(t, id)})

\* SELECT COUNT(*) FROM <t> WHERE id IN (ids) AND status = 1
CountWithStatus(t, ids, st) ==
    Cardinality({id \in Range(ids) : HasRow(t, id) /\ t[id] = st})

\* nextval of the id sequence of export_documents: taken at once, and kept
\* whether or not the inserting transaction commits
TakeDocId(d) == [d EXCEPT !.docSeq = @ + 1]

InsertDocument(d, docId, mode) ==
    [d EXCEPT !.export_documents =
                  InsertRow(@, docId, [export_mode |-> mode, xml_content |-> "NULL",
                                       xml_hash |-> "NULL"])]

\* INSERT INTO export_documents (export_mode, ...) RETURNING id
CreateDocument(d, mode) == InsertDocument(TakeDocId(d), d.docSeq + 1, mode)

Tagged(docId, barcodes) == [k \in 1..Len(barcodes) |-> <<docId, barcodes[k]>>]

\* SELECT bar_code FROM <t> WHERE id IN (ids)
RowsIn(t, ids) == Ascending(Range(ids) \cap DOMAIN t)

\* SELECT i.bar_code FROM items i JOIN item_box_assignments iba
\* ON i.id = iba.item_id WHERE iba.box_id IN (ids): one row per assignment row
ItemsInBoxes(d, boxes) ==
    LET rows == SelectSeq(d.item_box_assignments,
                          LAMBDA a : a[2] \in boxes /\ HasRow(d.items, a[1]))
    IN  [k \in 1..Len(rows) |-> rows[k][1]]

\* SELECT b.bar_code FROM boxes b JOIN pallet_box_assignments pba
\* ON b.id = pba.box_id WHERE pba.pallet_id IN (ids): one row per assignment row
BoxesOnPallets(d, pallets) ==
    LET rows == SelectSeq(d.pallet_box_assignments,
                          LAMBDA a : a[2] \in pallets /\ HasRow(d.boxes, a[1]))
    IN  [k \in 1..Len(rows) |-> rows[k][1]]

\* items i JOIN item_box_assignments iba JOIN boxes b JOIN pallet_box_assignments
\* pba WHERE pba.pallet_id IN (ids): one row per pair of joined assignment rows
ItemsOnPallets(d, pallets) ==
    LET bs == BoxesOnPallets(d, pallets)
    IN  Concat([k \in 1..Len(bs) |-> ItemsInBoxes(d, {bs[k]})])

SnapshotBoxes(d, docId, boxIds) ==
    [d EXCEPT !.export_boxes = @ \o Tagged(docId, RowsIn(d.boxes, boxIds))]

SnapshotItemsOfBoxes(d, docId, boxIds) ==
    [d EXCEPT !.export_items = @ \o Tagged(docId, ItemsInBoxes(d, Range(boxIds)))]

\* Faulty variant of the box export's updates: the items are left as they were.
MarkOnlyBoxesExported(d, boxIds) ==
    [d EXCEPT !.boxes = SetStatus(@, Range(boxIds), Exported)]

\* Faulty variant of the box export's updates: every Sealed box is marked, in
\* the target list or not.
MarkSealedBoxesExported(d, boxIds) ==
    [d EXCEPT !.boxes = [b \in DOMAIN @ |-> IF @[b] = Sealed \/ b \in Range(boxIds)
                                            THEN Exported ELSE @[b]],
              !.items = SetStatus(@, Range(ItemsInBoxes(d, Range(boxIds))), Exported)]

\* UPDATE boxes SET status = 2 WHERE id IN (ids); UPDATE items SET status = 2
\* WHERE id IN (SELECT item_id FROM item_box_assignments WHERE box_id IN (ids))
MarkBoxesExported(d, boxIds) ==
    [d EXCEPT !.boxes = SetStatus(@, Range(boxIds), Exported),
              !.items = SetStatus(@, Range(ItemsInBoxes(d, Range(boxIds))), Exported)]

\* UPDATE export_documents SET xml_content = :xml WHERE id = :id
StoreXml(d, docId) ==
    [d EXCEPT !.export_documents[docId].xml_content = "xml"]

\* The same UPDATE when the first query of generateBoxExportXml or
\* generatePalletExportXml has failed: the text ends after <organisation>.
StoreXmlHead(d, docId) ==
    [d EXCEPT !.export_documents[docId].xml_content = "xml head"]

\* Faulty variant of the steps after db.commit(): when the UPDATE fails the
\* document row is taken back.
AfterCommitUndoes(d, docId, rendered, stored) ==
    IF ~stored
    THEN [d EXCEPT !.export_documents = [k \in DOMAIN @ \ {docId} |-> @[k]]]
    ELSE IF rendered THEN StoreXml(d, docId) ELSE StoreXmlHead(d, docId)

\* The steps after db.commit(): the XML is rendered (in full, or its head
\* only) and the UPDATE stores it or fails, which is logged and nothing more.
AfterCommit(d, docId, rendered, stored) ==
    IF ~stored THEN d
    ELSE IF rendered THEN StoreXml(d, docId) ELSE StoreXmlHead(d, docId)

\* Faulty variant of db.rollback(): the work of the transaction is kept.
rollbackKeeps(d, work) == work

\* db.rollback(): the rows the transaction has written are dropped; a value
\* taken from the id sequence is not given back.
rollback(d, work) == [d EXCEPT !.docSeq = work.docSeq]

\* What doExportBoxes and doExportPallets return when statement `failed` of
\* the transaction fails: `works` are the states the earlier statements have
\* built, `messages` the error of each statement, `counted` the result fields
\* set so far.
FailedAt(d, failed, works, messages, counted) ==
    [db |-> rollback(d, works[failed]),
     effects |-> <<"open", "transaction", "rollback">>,
     result |-> [counted EXCEPT !.error = messages[failed]]]

BoxExportErrors ==
    <<"Failed to create document", "Failed to snapshot boxes", "Failed to snapshot items",
      "Failed to update box statuses", "Failed to update item statuses">>

\* `failed` names the statement after the eligibility count that fails:
\* 0 for none, else the index of its error in BoxExportErrors.
doExportBoxes(d, boxIds, opened, rendered, stored, failed) ==
    IF boxIds = <<>> THEN Failed(d, "No boxes to export", <<>>)
    ELSE IF ~opened THEN Failed(d, "Failed to create database connection", <<"open">>)
    ELSE IF CountWithStatus(d.boxes, boxIds, 1) # Len(boxIds)
    THEN Failed(d, "Some boxes not found or not sealed",
                <<"open", "transaction", "rollback">>)
    ELSE LET d1 == CreateDocument(d, BoxExport)
             id == d1.docSeq
             d2 == SnapshotBoxes(d1, id, boxIds)
             d3 == SnapshotItemsOfBoxes(d2, id, boxIds)
             d4 == MarkBoxesExported(d3, boxIds)
             boxes == Len(d2.export_boxes) - Len(d.export_boxes)
             items == Len(d3.export_items) - Len(d.export_items)
         IN  IF failed # 0
             THEN FailedAt(d, failed,
                           <<d, d1, d2, d3, [d3 EXCEPT !.boxes = d4.boxes]>>,
                           BoxExportErrors,
                           [NoResult EXCEPT
                               !.documentId = IF failed > 1 THEN id ELSE 0,
                               !.boxesExported = IF failed > 2 THEN boxes ELSE 0,
                               !.itemsExported = IF failed > 3 THEN items ELSE 0])
             ELSE [db |-> AfterCommit(d4, id, rendered, stored),
                   effects |-> <<"open", "transaction", "commit">>,
                   result |-> [NoResult EXCEPT
                                  !.success = TRUE, !.documentId = id,
                                  !.boxesExported = boxes, !.itemsExported = items]]

SnapshotPallets(d, docId, palletIds) ==
    [d EXCEPT !.export_pallets = @ \o Tagged(docId, RowsIn(d.pallets, palletIds))]

SnapshotBoxesOfPallets(d, docId, palletIds) ==
    [d EXCEPT !.export_boxes = @ \o Tagged(docId, BoxesOnPallets(d, Range(palletIds)))]

SnapshotItemsOfPallets(d, docId, palletIds) ==
    [d EXCEPT !.export_items = @ \o Tagged(docId, ItemsOnPallets(d, Range(palletIds)))]

\* Faulty variant of the pallet export's updates: the boxes are left as they were.
MarkPalletsAndItemsExported(d, palletIds) ==
    [d EXCEPT !.pallets = SetStatus(@, Range(palletIds), Exported),
              !.items = SetStatus(@, Range(ItemsOnPallets(d, Range(palletIds))), Exported)]

\* The three UPDATE ... SET status = 2 statements of the pallet export.
MarkPalletsExported(d, palletIds) ==
    [d EXCEPT !.pallets = SetStatus(@, Range(palletIds), Exported),
              !.boxes = SetStatus(@, Range(BoxesOnPallets(d, Range(palletIds))), Exported),
              !.items = SetStatus(@, Range(ItemsOnPallets(d, Range(palletIds))), Exported)]

PalletExportErrors ==
    <<"Failed to create document", "Failed to snapshot pallets", "Failed to snapshot boxes",
      "Failed to snapshot items", "Failed to update pallet statuses",
      "Failed to update box statuses", "Failed to update item statuses">>

doExportPallets(d, palletIds, opened, rendered, stored, failed) ==
    IF palletIds = <<>> THEN Failed(d, "No pallets to export", <<>>)
    ELSE IF ~opened THEN Failed(d, "Failed to create database connection", <<"open">>)
    ELSE IF CountWithStatus(d.pallets, palletIds, 1) # Len(palletIds)
    THEN Failed(d, "Some pallets not found or not complete",
                <<"open", "transaction", "rollback">>)
    ELSE LET d1 == CreateDocument(d, PalletExport)
             id == d1.docSeq
             d2 == SnapshotPallets(d1, id, palletIds)
             d3 == SnapshotBoxesOfPallets(d2, id, palletIds)
             d4 == SnapshotItemsOfPallets(d3, id, palletIds)
             d5 == MarkPalletsExported(d4, palletIds)
             pallets == Len(d2.export_pallets) - Len(d.export_pallets)
             boxes == Len(d3.export_boxes) - Len(d.export_boxes)
             items == Len(d4.export_items) - Len(d.export_items)
         IN  IF failed # 0
             THEN FailedAt(d, failed,
                           <<d, d1, d2, d3, d4, [d4 EXCEPT !.pallets = d5.pallets],
                             [d4 EXCEPT !.pallets = d5.pallets, !.boxes = d5.boxes]>>,
                           PalletExportErrors,
                           [NoResult EXCEPT
                               !.documentId = IF failed > 1 THEN id ELSE 0,
                               !.palletsExported = IF failed > 2 THEN pallets ELSE 0,
                               !.boxesExported = IF failed > 3 THEN boxes ELSE 0,
                               !.itemsExported = IF failed > 4 THEN items ELSE 0])
             ELSE [db |-> AfterCommit(d5, id, rendered, stored),
                   effects |-> <<"open", "transaction", "commit">>,
                   result |-> [NoResult EXCEPT
                                  !.success = TRUE, !.documentId = id,
                                  !.palletsExported = pallets, !.boxesExported = boxes,
                                  !.itemsExported = items]]

\* ------------------------------------------------- one call at a time
NoCall == [op |-> "none"]
IdleClient == [pc |-> "idle"]
IdleJob == [pc |-> "idle"]

Init ==
    /\ db = EmptyDb
    /\ lastError = [c \in Clients |-> ""]
    /\ ret = NoCall
    /\ client = [c \in Clients |-> IdleClient]
    /\ job = [j \in Jobs |-> IdleJob]
    /\ conn = [c \in Clients |-> TRUE]
    /\ signals = [c \in Clients |-> <<>>]
    /\ window = NoWindow

Quiet == ret = NoCall

Returns(c, r, op, args, value) ==
    /\ Quiet
    /\ db' = r.db
    /\ lastError' = [lastError EXCEPT ![c] = r.lastError]
    /\ ret' = [op |-> op, args |-> args, value |-> value]
    /\ UNCHANGED <<client, job, conn, signals, window>>

AssignItemToBox(c, itemId, boxId) ==
    LET r == assignItemToBox(db, lastError[c], itemId, boxId)
    IN  Returns(c, r, "assignItemToBox", <<itemId, boxId>>, r.ok)

AssignItemsToBox(c, itemIds, boxId) ==
    LET r == assignItemsToBox(db, lastError[c], itemIds, boxId)
    IN  Returns(c, r, "assignItemsToBox", <<itemIds, boxId>>, r.count)

SealBox(c, id) ==
    LET r == sealBox(db, lastError[c], id)
    IN  Returns(c, r, "sealBox", <<id>>, r.ok)

AssignBoxToPallet(c, boxId, palletId) ==
    /\ Len(db.pallet_box_assignments) < MaxPalletRows
    /\ LET r == assignBoxToPallet(db, lastError[c], boxId, palletId)
       IN  Returns(c, r, "assignBoxToPallet", <<boxId, palletId>>, r.ok)

CompletePallet(c, id) ==
    LET r == completePallet(db, lastError[c], id)
    IN  Returns(c, r, "completePallet", <<id>>, r.ok)

\* Faulty variant of a job's return: a job that could not open its connection
\* reports it on the caller's shared connection.
JobReturnsOnShared(r, op, args) ==
    /\ Quiet
    /\ db' = r.db
    /\ ret' = [op |-> op, args |-> args, value |-> r.result, effects |-> r.effects]
    /\ IF r.effects = <<"open">>
       THEN /\ conn' = [conn EXCEPT ![MainClient] = FALSE]
            /\ signals' = [signals EXCEPT ![MainClient] = Append(@, "connectionLost")]
       ELSE UNCHANGED <<conn, signals>>
    /\ UNCHANGED <<lastError, client, job, window>>

JobReturns(r, op, args) ==
    /\ Quiet
    /\ db' = r.db
    /\ ret' = [op |-> op, args |-> args, value |-> r.result, effects |-> r.effects]
    /\ UNCHANGED <<lastError, client, job, conn, signals, window>>

Import(tableName, barcodes, lineId, opened, failing) ==
    JobReturns(doImport(db, tableName, barcodes, lineId, opened, failing), "doImport",
               <<tableName, barcodes, lineId, opened, failing>>)

\* In Spec no statement of an export fails, and its XML is rendered and stored
\* without a failure.
ExportBoxes(boxIds, opened) ==
    JobReturns(doExportBoxes(db, boxIds, opened, TRUE, TRUE, 0), "doExportBoxes",
               <<boxIds, opened>>)

ExportPallets(palletIds, opened) ==
    JobReturns(doExportPallets(db, palletIds, opened, TRUE, TRUE, 0), "doExportPallets",
               <<palletIds, opened>>)

\* The caller takes the returned value.
Return ==
    /\ ~Quiet
    /\ ret' = NoCall
    /\ UNCHANGED <<db, lastError, client, job, conn, signals, window>>

TableIds(tableName) ==
    IF tableName = "items" THEN ItemIds
    ELSE IF tableName = "boxes" THEN BoxIds ELSE PalletIds

TableNames == {"items", "boxes", "pallets"}

\* The batches that may fail: none when the connection does not open.  Once a
\* statement has failed the server refuses every later statement of the
\* transaction, so the batches that fail are the last ones of the run.
Failing(barcodes, opened) ==
    IF opened
    THEN {k..NumBatches(Len(barcodes)) : k \in 1..(NumBatches(Len(barcodes)) + 1)}
    ELSE {{}}

Next ==
    \/ \E i \in ItemIds, b \in BoxIds : AssignItemToBox(MainClient, i, b)
    \/ \E is \in SeqsUpTo(ItemIds, MaxIds), b \in BoxIds :
           AssignItemsToBox(MainClient, is, b)
    \/ \E b \in BoxIds : SealBox(MainClient, b)
    \/ \E b \in BoxIds, p \in PalletIds : AssignBoxToPallet(MainClient, b, p)
    \/ \E p \in PalletIds : CompletePallet(MainClient, p)
    \/ \E t \in TableNames :
         \E bs \in SeqsUpTo(TableIds(t), MaxImportLen), o \in BOOLEAN, l \in LineIds :
           \E f \in Failing(bs, o) : Import(t, bs, l, o, f)
    \/ \E bs \in SeqsUpTo(BoxIds, MaxIds), o \in BOOLEAN : ExportBoxes(bs, o)
    \/ \E ps \in SeqsUpTo(PalletIds, MaxIds), o \in BOOLEAN : ExportPallets(ps, o)
    \/ Return

Spec == Init /\ [][Next]_vars

\* --------------------------------------------------------- imports alone
\* Import runs over every production line, one call at a time.  They start on
\* the empty database, or on one where earlier calls have imported item 2 and
\* box 1 on the last production line and put the item into the box.
AssignedSeed ==
    LET d1 == doImport(EmptyDb, "items", <<2>>, NumImportLines, TRUE, {}).db
        d2 == doImport(d1, "boxes", <<1>>, NumImportLines, TRUE, {}).db
    IN  assignItemToBox(d2, "", 2, 1).db

InitImport ==
    /\ db \in {EmptyDb, AssignedSeed}
    /\ lastError = [c \in Clients |-> ""]
    /\ ret = NoCall
    /\ client = [c \in Clients |-> IdleClient]
    /\ job = [j \in Jobs |-> IdleJob]
    /\ conn = [c \in Clients |-> TRUE]
    /\ signals = [c \in Clients |-> <<>>]
    /\ window = NoWindow

NextImport ==
    \/ \E t \in TableNames :
         \E bs \in SeqsUpTo(TableIds(t), MaxImportLen), o \in BOOLEAN, l \in ImportLineIds :
           \E f \in Failing(bs, o) : Import(t, bs, l, o, f)
    \/ Return

SpecImport == InitImport /\ [][NextImport]_vars

\* ------------------------------------------- statements interleaved
\* Two application instances and a background job work on one database; each
\* step is one statement (or the write-and-commit tail of a transaction, whose
\* rows become visible together at COMMIT).  A plain SELECT takes no lock and
\* reads the rows committed when it runs.  This specification follows the rows
\* of the database only: lastError_ and the returned values stay as they are.
Seeded(ni, nb) ==
    [EmptyDb EXCEPT !.items = [i \in 1..ni |-> Available],
                    !.boxes = [b \in 1..nb |-> Empty],
                    !.pallets = [p \in PalletIds |-> New],
                    !.production_line = [items |-> [i \in 1..ni |-> 1],
                                         boxes |-> [b \in 1..nb |-> 1],
                                         pallets |-> [p \in PalletIds |-> 1]]]

\* The databases an import of MaxConcRows item and box barcodes leaves.
Seeds ==
    {Seeded(ni, nb) : <<ni, nb>> \in {x \in ItemIds \X BoxIds : x[1] + x[2] = MaxConcRows}}

InitConc ==
    /\ db \in Seeds
    /\ lastError = [c \in Clients |-> ""]
    /\ ret = NoCall
    /\ client = [c \in Clients |-> IdleClient]
    /\ job = [j \in Jobs |-> IdleJob]
    /\ conn = [c \in Clients |-> TRUE]
    /\ signals = [c \in Clients |-> <<>>]
    /\ window = NoWindow

Idle(c) == client[c].pc = "idle"

ClientStep(c, next) ==
    /\ client' = [client EXCEPT ![c] = next]
    /\ UNCHANGED <<lastError, ret, job, conn, signals, window>>

\* assignItemToBox: BEGIN and the SELECT on boxes
AssignSelectBox(c, itemId, boxId) ==
    /\ Idle(c)
    /\ ClientStep(c, IF BoxMustBeEmpty(db, boxId) = "ok"
                     THEN [pc |-> "assign_item", itemId |-> itemId, boxId |-> boxId]
                     ELSE IdleClient)
    /\ UNCHANGED db

\* assignItemToBox: the SELECT on items
AssignSelectItem(c) ==
    /\ client[c].pc = "assign_item"
    /\ ClientStep(c, IF ItemMustBeAvailable(db, client[c].itemId) = "ok"
                     THEN [client[c] EXCEPT !.pc = "assign_commit"]
                     ELSE IdleClient)
    /\ UNCHANGED db

\* assignItemToBox: INSERT, UPDATE, COMMIT
AssignCommit(c) ==
    /\ client[c].pc = "assign_commit"
    /\ db' = CommitItemToBox(db, client[c].itemId, client[c].boxId)
    /\ ClientStep(c, IdleClient)

\* sealBox: the SELECT COUNT(*)
SealCount(c, id) ==
    /\ Idle(c)
    /\ ClientStep(c, IF BoxItemCount(db, id) = 0 THEN IdleClient
                     ELSE [pc |-> "seal_update", boxId |-> id])
    /\ UNCHANGED db

\* sealBox: the conditional UPDATE
SealBoxUpdate(c) ==
    /\ client[c].pc = "seal_update"
    /\ db' = SealUpdate(db, client[c].boxId).db
    /\ ClientStep(c, IdleClient)

\* assignBoxToPallet: BEGIN and the SELECT on pallets
PalletSelectPallet(c, boxId, palletId) ==
    /\ Idle(c)
    /\ ClientStep(c, IF PalletMustBeNew(db, palletId) = "ok"
                     THEN [pc |-> "pallet_box", boxId |-> boxId, palletId |-> palletId]
                     ELSE IdleClient)
    /\ UNCHANGED db

\* assignBoxToPallet: the SELECT on boxes
PalletSelectBox(c) ==
    /\ client[c].pc = "pallet_box"
    /\ ClientStep(c, IF BoxMustBeSealed(db, client[c].boxId) = "ok"
                     THEN [client[c] EXCEPT !.pc = "pallet_commit"]
                     ELSE IdleClient)
    /\ UNCHANGED db

\* assignBoxToPallet: INSERT, COMMIT
PalletCommit(c) ==
    /\ client[c].pc = "pallet_commit"
    /\ Len(db.pallet_box_assignments) < MaxPalletRows
    /\ db' = CommitBoxToPallet(db, client[c].boxId, client[c].palletId)
    /\ ClientStep(c, IdleClient)

\* completePallet: the SELECT COUNT(*)
CompleteCount(c, id) ==
    /\ Idle(c)
    /\ ClientStep(c, IF PalletBoxCount(db, id) = 0 THEN IdleClient
                     ELSE [pc |-> "complete_update", palletId |-> id])
    /\ UNCHANGED db

\* completePallet: the conditional UPDATE
CompletePalletUpdate(c) ==
    /\ client[c].pc = "complete_update"
    /\ db' = CompleteUpdate(db, client[c].palletId).db
    /\ ClientStep(c, IdleClient)

JobIdle(j) == job[j].pc = "idle"

JobStep(j, next) ==
    /\ job' = [job EXCEPT ![j] = next]
    /\ UNCHANGED <<lastError, ret, client, conn, signals, window>>

\* The rows a job's transaction has inserted and not yet committed.
Commit(d, j) ==
    [InsertDocument(d, job[j].docId, job[j].mode) EXCEPT
        !.export_pallets = @ \o Tagged(job[j].docId, job[j].pallets),
        !.export_boxes = @ \o Tagged(job[j].docId, job[j].boxes),
        !.export_items = @ \o Tagged(job[j].docId, job[j].items)]

\* doExportBoxes up to the snapshot of the boxes: the eligibility count, the
\* document row and the rows of export_boxes (a bar_code never changes)
ExportBoxesBegin(j, boxIds) ==
    /\ JobIdle(j)
    /\ boxIds # <<>>
    /\ IF CountWithStatus(db.boxes, boxIds, 1) # Len(boxIds)
       THEN UNCHANGED db /\ JobStep(j, IdleJob)
       ELSE /\ db' = TakeDocId(db)
            /\ JobStep(j, [pc |-> "boxes_items", mode |-> BoxExport, ids |-> boxIds,
                           docId |-> db.docSeq + 1, pallets |-> <<>>,
                           boxes |-> RowsIn(db.boxes, boxIds), items |-> <<>>])

\* doExportBoxes: the INSERT INTO export_items ... SELECT
ExportBoxesItems(j) ==
    /\ job[j].pc = "boxes_items"
    /\ JobStep(j, [job[j] EXCEPT !.pc = "boxes_commit",
                                 !.items = ItemsInBoxes(db, Range(job[j].ids))])
    /\ UNCHANGED db

\* doExportBoxes: the two UPDATEs and COMMIT
ExportBoxesCommit(j) ==
    /\ job[j].pc = "boxes_commit"
    /\ db' = MarkBoxesExported(Commit(db, j), job[j].ids)
    /\ JobStep(j, [job[j] EXCEPT !.pc = "xml"])

\* doExportPallets up to the snapshot of the pallets
ExportPalletsBegin(j, palletIds) ==
    /\ JobIdle(j)
    /\ palletIds # <<>>
    /\ IF CountWithStatus(db.pallets, palletIds, 1) # Len(palletIds)
       THEN UNCHANGED db /\ JobStep(j, IdleJob)
       ELSE /\ db' = TakeDocId(db)
            /\ JobStep(j, [pc |-> "pallets_boxes", mode |-> PalletExport,
                           ids |-> palletIds, docId |-> db.docSeq + 1,
                           pallets |-> RowsIn(db.pallets, palletIds),
                           boxes |-> <<>>, items |-> <<>>])

\* doExportPallets: the INSERT INTO export_boxes ... SELECT
ExportPalletsBoxes(j) ==
    /\ job[j].pc = "pallets_boxes"
    /\ JobStep(j, [job[j] EXCEPT !.pc = "pallets_items",
                                 !.boxes = BoxesOnPallets(db, Range(job[j].ids))])
    /\ UNCHANGED db

\* doExportPallets: the INSERT INTO export_items ... SELECT
ExportPalletsItems(j) ==
    /\ job[j].pc = "pallets_items"
    /\ JobStep(j, [job[j] EXCEPT !.pc = "pallets_commit",
                                 !.items = ItemsOnPallets(db, Range(job[j].ids))])
    /\ UNCHANGED db

\* doExportPallets: the three UPDATEs and COMMIT
ExportPalletsCommit(j) ==
    /\ job[j].pc = "pallets_commit"
    /\ db' = MarkPalletsExported(Commit(db, j), job[j].ids)
    /\ JobStep(j, [job[j] EXCEPT !.pc = "xml"])

\* either export: the XML is rendered and stored after the commit
ExportXml(j) ==
    /\ job[j].pc = "xml"
    /\ db' = StoreXml(db, job[j].docId)
    /\ JobStep(j, IdleJob)

NextConc ==
    \/ \E c \in Clients, i \in ItemIds, b \in BoxIds : AssignSelectBox(c, i, b)
    \/ \E c \in Clients : AssignSelectItem(c)
    \/ \E c \in Clients : AssignCommit(c)
    \/ \E c \in Clients, b \in BoxIds : SealCount(c, b)
    \/ \E c \in Clients : SealBoxUpdate(c)
    \/ \E c \in Clients, b \in BoxIds, p \in PalletIds : PalletSelectPallet(c, b, p)
    \/ \E c \in Clients : PalletSelectBox(c)
    \/ \E c \in Clients : PalletCommit(c)
    \/ \E c \in Clients, p \in PalletIds : CompleteCount(c, p)
    \/ \E c \in Clients : CompletePalletUpdate(c)
    \/ \E j \in Jobs, bs \in SeqsUpTo(BoxIds, MaxIds) : ExportBoxesBegin(j, bs)
    \/ \E j \in Jobs : ExportBoxesItems(j)
    \/ \E j \in Jobs : ExportBoxesCommit(j)
    \/ \E j \in Jobs, ps \in SeqsUpTo(PalletIds, MaxIds) : ExportPalletsBegin(j, ps)
    \/ \E j \in Jobs : ExportPalletsBoxes(j)
    \/ \E j \in Jobs : ExportPalletsItems(j)
    \/ \E j \in Jobs : ExportPalletsCommit(j)
    \/ \E j \in Jobs : ExportXml(j)

SpecConc == InitConc /\ [][NextConc]_vars

\* ------------------------------------------------- exports interleaved
\* Two export jobs, each on its own connection, each run once; the steps are
\* those of SpecConc, and a job that has ended keeps what it has returned.
ExportJobs == {1, 2}

ExportPalletIds == 1..NumExportPallets

\* The database after item k has gone into box k and both boxes are sealed,
\* box 1 stands on pallet 1 and pallet 1 is complete; when `both`, box 2 stands
\* on pallet 2 and pallet 2 is complete as well.
ExportSeed(both) ==
    LET d0 == [EmptyDb EXCEPT
                  !.items = [i \in ItemIds |-> Available],
                  !.boxes = [b \in BoxIds |-> Empty],
                  !.pallets = [p \in ExportPalletIds |-> New],
                  !.production_line = [items |-> [i \in ItemIds |-> 1],
                                       boxes |-> [b \in BoxIds |-> 1],
                                       pallets |-> [p \in ExportPalletIds |-> 1]]]
        d1 == assignItemToBox(d0, "", 1, 1).db
        d2 == assignItemToBox(d1, "", 2, 2).db
        d3 == sealBox(sealBox(d2, "", 1).db, "", 2).db
        d4 == completePallet(assignBoxToPallet(d3, "", 1, 1).db, "", 1).db
    IN  IF both THEN completePallet(assignBoxToPallet(d4, "", 2, 2).db, "", 2).db ELSE d4

ExportSeeds == {ExportSeed(both) : both \in BOOLEAN}

InitExportConc ==
    /\ db \in ExportSeeds
    /\ lastError = [c \in Clients |-> ""]
    /\ ret = NoCall
    /\ client = [c \in Clients |-> IdleClient]
    /\ job = [j \in ExportJobs |-> IdleJob]
    /\ conn = [c \in Clients |-> TRUE]
    /\ signals = [c \in Clients |-> <<>>]
    /\ window = NoWindow

\* What a job that has returned keeps: its call and its ExportResult.
Ended(j, mode, ids, success, docId, pallets, boxes, items) ==
    [pc |-> "done", mode |-> mode, ids |-> ids, success |-> success, docId |-> docId,
     palletsExported |-> pallets, boxesExported |-> boxes, itemsExported |-> items]

\* doExportBoxes up to the snapshot of the boxes
ExportBoxesOnce(j, boxIds) ==
    /\ JobIdle(j)
    /\ boxIds # <<>>
    /\ IF CountWithStatus(db.boxes, boxIds, 1) # Len(boxIds)
       THEN UNCHANGED db /\ JobStep(j, Ended(j, BoxExport, boxIds, FALSE, 0, 0, 0, 0))
       ELSE /\ db' = TakeDocId(db)
            /\ JobStep(j, [pc |-> "boxes_items", mode |-> BoxExport, ids |-> boxIds,
                           docId |-> db.docSeq + 1, pallets |-> <<>>,
                           boxes |-> RowsIn(db.boxes, boxIds), items |-> <<>>])

\* doExportPallets up to the snapshot of the pallets
ExportPalletsOnce(j, palletIds) ==
    /\ JobIdle(j)
    /\ palletIds # <<>>
    /\ IF CountWithStatus(db.pallets, palletIds, 1) # Len(palletIds)
       THEN UNCHANGED db /\ JobStep(j, Ended(j, PalletExport, palletIds, FALSE, 0, 0, 0, 0))
       ELSE /\ db' = TakeDocId(db)
            /\ JobStep(j, [pc |-> "pallets_boxes", mode |-> PalletExport,
                           ids |-> palletIds, docId |-> db.docSeq + 1,
                           pallets |-> RowsIn(db.pallets, palletIds),
                           boxes |-> <<>>, items |-> <<>>])

\* either export: the XML is stored and the job returns its result
ExportXmlOnce(j) ==
    /\ job[j].pc = "xml"
    /\ db' = StoreXml(db, job[j].docId)
    /\ JobStep(j, Ended(j, job[j].mode, job[j].ids, TRUE, job[j].docId,
                        Len(job[j].pallets), Len(job[j].boxes), Len(job[j].items)))

NextExportConc ==
    \/ \E j \in ExportJobs, bs \in SeqsUpTo(BoxIds, MaxIds) : ExportBoxesOnce(j, bs)
    \/ \E j \in ExportJobs : ExportBoxesItems(j)
    \/ \E j \in ExportJobs : ExportBoxesCommit(j)
    \/ \E j \in ExportJobs, ps \in SeqsUpTo(ExportPalletIds, MaxIds) : ExportPalletsOnce(j, ps)
    \/ \E j \in ExportJobs : ExportPalletsBoxes(j)
    \/ \E j \in ExportJobs : ExportPalletsItems(j)
    \/ \E j \in ExportJobs : ExportPalletsCommit(j)
    \/ \E j \in ExportJobs : ExportXmlOnce(j)

SpecExportConc == InitExportConc /\ [][NextExportConc]_vars

\* ------------------------------------------------- imports interleaved
\* Two import jobs run doImport on the items table, each in a transaction on
\* its own connection.  A step is one row of a multi-row INSERT ... ON CONFLICT
\* (bar_code) DO NOTHING.  The unique index on bar_code decides each row: a
\* barcode held by a committed row or by a row of the same transaction is
\* skipped; a barcode held by an uncommitted row of the other transaction makes
\* the statement wait until that transaction ends; two transactions that wait
\* for each other are a deadlock, which the server ends by failing the
\* statement of one of them.
ImportJobs == {1, 2}

IdleImport ==
    [pc |-> "idle", barcodes |-> <<>>, lineId |-> 0, pos |-> 0, affected |-> 0,
     aborted |-> FALSE, r |-> NewImport(0)]

InitImportConc ==
    /\ db = EmptyDb
    /\ lastError = [c \in Clients |-> ""]
    /\ ret = NoCall
    /\ client = [c \in Clients |-> IdleClient]
    /\ job = [j \in ImportJobs |-> IdleImport]
    /\ conn = [c \in Clients |-> TRUE]
    /\ signals = [c \in Clients |-> <<>>]
    /\ window = NoWindow

ImportStep(j, next) ==
    /\ job' = [job EXCEPT ![j] = next]
    /\ UNCHANGED <<lastError, ret, client, conn, signals, window>>

\* The index of the last row of the batch that row pos belongs to.
BatchEnd(barcodes, pos) ==
    Min((((pos - 1) \div batchSize) + 1) * batchSize, Len(barcodes))

\* The row the job's INSERT is about to add is held by a committed row or by
\* a row of its own transaction.
Held(j) ==
    LET b == job[j].barcodes[job[j].pos]
    IN  b \in DOMAIN db.items \/ b \in job[j].r.inserted

\* Job j's INSERT waits for the transaction of job k.
Waits(j, k) ==
    /\ job[j].pc = "insert" /\ ~job[j].aborted
    /\ ~Held(j)
    /\ job[j].barcodes[job[j].pos] \in job[k].r.inserted

\* The statement of the current batch fails: its rows count as errors, and the
\* server has aborted the transaction, whose rows are gone.
FailBatch(s, text) ==
    LET last == BatchEnd(s.barcodes, s.pos)
    IN  [s EXCEPT !.r = [@ EXCEPT !.errorCount = @ + (last - s.r.processed),
                                  !.errors = Append(@, text),
                                  !.inserted = {},
                                  !.processed = last,
                                  !.progress = Append(@, <<last, s.r.totalRecords>>)],
                  !.pos = last + 1,
                  !.affected = 0,
                  !.aborted = TRUE,
                  !.pc = IF last = Len(s.barcodes) THEN "end" ELSE "insert"]

\* doImport from the parsed list to db.transaction().
ImportBegin(j, barcodes, lineId) ==
    /\ job[j].pc = "idle"
    /\ barcodes # <<>>
    /\ ImportStep(j, [IdleImport EXCEPT !.pc = "insert", !.barcodes = barcodes,
                                        !.lineId = lineId, !.pos = 1,
                                        !.r = NewImport(Len(barcodes))])
    /\ UNCHANGED db

\* One row of the INSERT of the current batch; after the last row of the batch
\* the counters of the result take the statement's numRowsAffected().
ImportRow(j) ==
    LET s == job[j]
        b == s.barcodes[s.pos]
        last == s.pos = BatchEnd(s.barcodes, s.pos)
        aff == s.affected + (IF Held(j) THEN 0 ELSE 1)
        len == s.pos - s.r.processed
        r1 == [s.r EXCEPT !.inserted = IF Held(j) THEN @ ELSE @ \cup {b}]
        r2 == IF last
              THEN [r1 EXCEPT !.importedCount = @ + aff,
                              !.skippedCount = @ + (len - aff),
                              !.processed = s.pos,
                              !.progress = Append(@, <<s.pos, s.r.totalRecords>>)]
              ELSE r1
    IN  /\ s.pc = "insert" /\ ~s.aborted
        /\ Held(j) \/ \A k \in ImportJobs \ {j} : ~Waits(j, k)
        /\ ImportStep(j, [s EXCEPT !.r = r2,
                                   !.pos = @ + 1,
                                   !.affected = IF last THEN 0 ELSE aff,
                                   !.pc = IF s.pos = Len(s.barcodes) THEN "end"
                                          ELSE "insert"])
        /\ UNCHANGED db

\* The server finds jobs j and k waiting for each other and fails j's statement.
ImportDeadlock(j) ==
    /\ \E k \in ImportJobs \ {j} : Waits(j, k) /\ Waits(k, j)
    /\ ImportStep(j, FailBatch(job[j], "deadlock detected"))
    /\ UNCHANGED db

\* A statement sent in a transaction the server has aborted fails as well.
ImportAborted(j) ==
    /\ job[j].pc = "insert" /\ job[j].aborted
    /\ ImportStep(j, FailBatch(job[j], "current transaction is aborted"))
    /\ UNCHANGED db

\* commit or rollback, and the result is returned.
ImportFinish(j) ==
    /\ job[j].pc = "end"
    /\ db' = ImportEnd(db, "items", job[j].r, job[j].lineId)
    /\ ImportStep(j, [job[j] EXCEPT !.pc = "idle", !.r.inserted = {}])

NextImportConc ==
    \/ \E j \in ImportJobs, bs \in SeqsUpTo(ItemIds, MaxImportLen), l \in LineIds :
           ImportBegin(j, bs, l)
    \/ \E j \in ImportJobs : ImportRow(j)
    \/ \E j \in ImportJobs : ImportDeadlock(j)
    \/ \E j \in ImportJobs : ImportAborted(j)
    \/ \E j \in ImportJobs : ImportFinish(j)

SpecImportConc == InitImportConc /\ [][NextImportConc]_vars

\* ------------------------------------------------------- authentication
\* users, roles and permissions are maps from the id to the columns the
\* queries of authenticate read; user_roles is the set of its (user_id,
\* role_id) rows and role_permissions maps (role_id, permission_id) to the
\* granted flag (both pairs are conflict targets of the code's upserts).  A
\* username is the id of its user, so usernames are unique.
MatchingUsersAnyActivity(d, username, pinHash) ==
    {u \in DOMAIN d.users :
        d.users[u].username = username /\ d.users[u].pin_hash = pinHash}

\* SELECT ... FROM users WHERE username = :username AND pin_hash = :hash
\* AND active = true
MatchingUsers(d, username, pinHash) ==
    {u \in DOMAIN d.users :
        /\ d.users[u].username = username
        /\ d.users[u].pin_hash = pinHash
        /\ d.users[u].active}

\* SELECT r.id, ... FROM roles r JOIN user_roles ur ON r.id = ur.role_id
\* WHERE ur.user_id = :userId AND r.active = true
RolesOf(d, userId) ==
    Ascending({r \in DOMAIN d.roles : <<userId, r>> \in d.user_roles /\ d.roles[r].active})

\* The rows of permissions p JOIN role_permissions rp JOIN user_roles ur
\* WHERE ur.user_id = :userId AND rp.granted = true AND p.active = true: one
\* per (role, permission) pair, before DISTINCT.
JoinedPermissions(d, userId) ==
    LET pairs == {x \in DOMAIN d.role_permissions :
                     /\ <<userId, x[1]>> \in d.user_roles
                     /\ d.role_permissions[x]
                     /\ x[2] \in DOMAIN d.permissions
                     /\ d.permissions[x[2]].active}
        OfRole(r) == Ascending({x[2] : x \in {y \in pairs : y[1] = r}})
        rs == Ascending({x[1] : x \in pairs})
    IN  Concat([k \in 1..Len(rs) |-> OfRole(rs[k])])

\* SELECT DISTINCT: each row once.
RECURSIVE Distinct(_)
Distinct(s) ==
    IF s = <<>> THEN <<>>
    ELSE LET rest == Distinct(SubSeq(s, 1, Len(s) - 1))
         IN  IF s[Len(s)] \in Range(rest) THEN rest ELSE Append(rest, s[Len(s)])

PermissionsOf(d, userId) == Distinct(JoinedPermissions(d, userId))

\* UPDATE users SET last_login = NOW() WHERE id = :id
TouchLogin(d, userId) == [d EXCEPT !.users[userId].last_login = "NOW"]

authenticate(d, le, username, pinHash) ==
    LET rows == MatchingUsers(d, username, pinHash)
        u == CHOOSE x \in rows : \A y \in rows : x <= y
    IN  IF rows = {}
        THEN [db |-> d, lastError |-> "Invalid username or PIN", user |-> Nullopt]
        ELSE [db |-> TouchLogin(d, u),
              lastError |-> le,
              user |-> [user |-> d.users[u] @@ [id |-> u],
                        roles |-> RolesOf(d, u),
                        permissions |-> PermissionsOf(d, u)]]

Authenticate(c, username, pinHash) ==
    LET r == authenticate(db, lastError[c], username, pinHash)
    IN  Returns(c, r, "authenticate", <<username, pinHash>>, r.user)

\* The login tables as user and role management may have left them.
Hashes == 1..NumHashes

Grants == {"none", "granted", "revoked"}

WithLogins(users, roles, ur, rp, perms) ==
    [EmptyDb EXCEPT
        !.users = [u \in UserIds |-> [username |-> u, pin_hash |-> users[u][1],
                                      active |-> users[u][2], last_login |-> "NULL"]],
        !.roles = [r \in RoleIds |-> [active |-> roles[r]]],
        !.permissions = [p \in PermIds |-> [active |-> perms[p]]],
        !.user_roles = ur,
        !.role_permissions = [x \in {y \in RoleIds \X PermIds : rp[y] # "none"} |->
                                 rp[x] = "granted"]]

InitAuth ==
    /\ db \in {WithLogins(us, rs, ur, rp, ps) :
                  us \in [UserIds -> Hashes \X BOOLEAN],
                  rs \in [RoleIds -> BOOLEAN],
                  ur \in SUBSET (UserIds \X RoleIds),
                  rp \in [RoleIds \X PermIds -> Grants],
                  ps \in [PermIds -> BOOLEAN]}
    /\ lastError = [c \in Clients |-> ""]
    /\ ret = NoCall
    /\ client = [c \in Clients |-> IdleClient]
    /\ job = [j \in Jobs |-> IdleJob]
    /\ conn = [c \in Clients |-> TRUE]
    /\ signals = [c \in Clients |-> <<>>]
    /\ window = NoWindow

\* The usernames tried at login: those of the users and one nobody has.
Usernames == 1..(NumUsers + 1)

NextAuth ==
    \/ \E n \in Usernames, h \in Hashes : Authenticate(MainClient, n, h)
    \/ Return

SpecAuth == InitAuth /\ [][NextAuth]_vars

\* ------------------------------------------------- the shared connection
\* A session is what a synchronous call reads and writes of its DbService:
\* whether the shared connection is open, lastError_, the signals emitted and
\* the reconnect attempts made during the call.
Session(c) ==
    [conn |-> conn[c], lastError |-> lastError[c], signals |-> <<>>, attempts |-> 0,
     ok |-> TRUE]

\* reconnect(): disconnect(), then connect(config_), whose db.open() succeeds
\* or not; a failed open stores the driver's text in lastError_.
reconnect(s, reachable) ==
    IF reachable
    THEN [s EXCEPT !.conn = TRUE, !.attempts = @ + 1, !.ok = TRUE]
    ELSE [s EXCEPT !.conn = FALSE, !.attempts = @ + 1, !.ok = FALSE,
                   !.lastError = "connection failed"]

ensureConnected(s, reachable) ==
    IF s.conn THEN [s EXCEPT !.ok = TRUE]
    ELSE LET r == reconnect(s, reachable)
         IN  IF r.ok THEN [r EXCEPT !.signals = Append(@, "connectionRestored")]
             ELSE [r EXCEPT !.signals = Append(@, "connectionLost")]

\* if (!ensureConnected()) return <failure>; then the body of the operation,
\* whose outcome on an open connection is r and whose returned value is value.
OnConnection(d, s, reachable, failure, r, value) ==
    LET e == ensureConnected(s, reachable)
    IN  IF e.ok
        THEN [db |-> r.db, value |-> value, s |-> [e EXCEPT !.lastError = r.lastError]]
        ELSE [db |-> d, value |-> failure, s |-> e]

assignItemToBoxOn(d, s, reachable, itemId, boxId) ==
    LET r == assignItemToBox(d, s.lastError, itemId, boxId)
    IN  OnConnection(d, s, reachable, FALSE, r, r.ok)

\* assignItemsToBox has no test of its own: every assignItemToBox of the loop
\* runs ensureConnected; reachable[k] is the outcome of the k-th call's open.
RECURSIVE assignItemsLoopOn(_, _, _, _, _, _)
assignItemsLoopOn(d, s, reachable, itemIds, boxId, count) ==
    IF itemIds = <<>> THEN [db |-> d, value |-> count, s |-> s]
    ELSE LET r == assignItemToBoxOn(d, s, Head(reachable), Head(itemIds), boxId)
         IN  assignItemsLoopOn(r.db, r.s, Tail(reachable), Tail(itemIds), boxId,
                               IF r.value THEN count + 1 ELSE count)

assignItemsToBoxOn(d, s, reachable, itemIds, boxId) ==
    assignItemsLoopOn(d, s, reachable, itemIds, boxId, 0)

sealBoxOn(d, s, reachable, id) ==
    LET r == sealBox(d, s.lastError, id)
    IN  OnConnection(d, s, reachable, FALSE, r, r.ok)

assignBoxToPalletOn(d, s, reachable, boxId, palletId) ==
    LET r == assignBoxToPallet(d, s.lastError, boxId, palletId)
    IN  OnConnection(d, s, reachable, FALSE, r, r.ok)

completePalletOn(d, s, reachable, id) ==
    LET r == completePallet(d, s.lastError, id)
    IN  OnConnection(d, s, reachable, FALSE, r, r.ok)

\* A synchronous call of instance c returns; ret keeps whether the connection
\* was down when the call began and how many reconnects the call has made.
ReturnsOn(c, r, op, args) ==
    /\ Quiet
    /\ db' = r.db
    /\ lastError' = [lastError EXCEPT ![c] = r.s.lastError]
    /\ conn' = [conn EXCEPT ![c] = r.s.conn]
    /\ signals' = [signals EXCEPT ![c] = r.s.signals]
    /\ ret' = [op |-> op, args |-> args, value |-> r.value,
               down |-> ~conn[c], attempts |-> r.s.attempts]
    /\ UNCHANGED <<client, job, window>>

AssignItemToBoxOn(c, reachable, itemId, boxId) ==
    ReturnsOn(c, assignItemToBoxOn(db, Session(c), reachable, itemId, boxId),
              "assignItemToBox", <<itemId, boxId>>)

AssignItemsToBoxOn(c, reachable, itemIds, boxId) ==
    ReturnsOn(c, assignItemsToBoxOn(db, Session(c), reachable, itemIds, boxId),
              "assignItemsToBox", <<itemIds, boxId>>)

SealBoxOn(c, reachable, id) ==
    ReturnsOn(c, sealBoxOn(db, Session(c), reachable, id), "sealBox", <<id>>)

AssignBoxToPalletOn(c, reachable, boxId, palletId) ==
    /\ Len(db.pallet_box_assignments) < MaxPalletRows
    /\ ReturnsOn(c, assignBoxToPalletOn(db, Session(c), reachable, boxId, palletId),
                 "assignBoxToPallet", <<boxId, palletId>>)

CompletePalletOn(c, reachable, id) ==
    ReturnsOn(c, completePalletOn(db, Session(c), reachable, id), "completePallet", <<id>>)

\* The server or the network ends the shared connection between two calls.
ConnectionDrops(c) ==
    /\ Quiet
    /\ conn[c]
    /\ conn' = [conn EXCEPT ![c] = FALSE]
    /\ UNCHANGED <<db, lastError, ret, client, job, signals, window>>

\* The instance is constructed and connect() has succeeded or failed.
InitConn ==
    /\ db \in Seeds
    /\ lastError = [c \in Clients |-> ""]
    /\ ret = NoCall
    /\ client = [c \in Clients |-> IdleClient]
    /\ job = [j \in Jobs |-> IdleJob]
    /\ conn \in {f \in [Clients -> BOOLEAN] : \A c \in Clients \ {MainClient} : f[c]}
    /\ signals = [c \in Clients |-> <<>>]
    /\ window = NoWindow

NextConn ==
    \/ \E i \in ItemIds, b \in BoxIds, o \in BOOLEAN :
           AssignItemToBoxOn(MainClient, o, i, b)
    \/ \E is \in SeqsUpTo(ItemIds, MaxIds), b \in BoxIds :
           \E os \in [1..Len(is) -> BOOLEAN] : AssignItemsToBoxOn(MainClient, os, is, b)
    \/ \E b \in BoxIds, o \in BOOLEAN : SealBoxOn(MainClient, o, b)
    \/ \E b \in BoxIds, p \in PalletIds, o \in BOOLEAN :
           AssignBoxToPalletOn(MainClient, o, b, p)
    \/ \E p \in PalletIds, o \in BOOLEAN : CompletePalletOn(MainClient, o, p)
    \/ ConnectionDrops(MainClient)
    \/ Return

SpecConn == InitConn /\ [][NextConn]_vars

\* ------------------------------------------------------ background jobs
\* The text of an import file is the sequence of its character codes.
LF == 10
CR == 13
Space == 32
Digit1 == 49

Chars == {LF, CR, Space, Digit1}

Texts == SeqsUpTo(Chars, MaxTextLen)

\* QChar::isSpace for the characters of Chars
IsSpace(ch) == ch \in {LF, CR, Space}

\* content.split(QRegularExpression("\\r?\\n")): a line ends at LF, and a CR
\* right before that LF belongs to the separator.
RECURSIVE SplitLines(_, _)
SplitLines(content, line) ==
    IF content = <<>> THEN <<line>>
    ELSE IF Head(content) = LF
    THEN LET part == IF line # <<>> /\ line[Len(line)] = CR
                     THEN SubSeq(line, 1, Len(line) - 1) ELSE line
         IN  <<part>> \o SplitLines(Tail(content), <<>>)
    ELSE SplitLines(Tail(content), Append(line, Head(content)))

\* Qt::SkipEmptyParts
SkipEmptyParts(parts) == SelectSeq(parts, LAMBDA p : p # <<>>)

\* Faulty variant of trimmed(): the line is kept as it is.
untrimmed(line) == line

\* QString::trimmed()
RECURSIVE trimmed(_)
trimmed(line) ==
    IF line = <<>> THEN line
    ELSE IF IsSpace(Head(line)) THEN trimmed(Tail(line))
    ELSE IF IsSpace(line[Len(line)]) THEN trimmed(SubSeq(line, 1, Len(line) - 1))
    ELSE line

\* The loop that fills `barcodes`.
BarcodeTexts(content) ==
    LET lines == SkipEmptyParts(SplitLines(content, <<>>))
        kept == SelectSeq([k \in 1..Len(lines) |-> trimmed(lines[k])], LAMBDA b : b # <<>>)
    IN  kept

\* The row of a barcode text: texts are numbered so that different texts name
\* different rows and the text "1" names row 1.
RECURSIVE RowOf(_)
RowOf(text) ==
    IF text = <<>> THEN 0
    ELSE LET ch == text[Len(text)]
             v == IF ch = Digit1 THEN 1 ELSE IF ch = Space THEN 2 ELSE IF ch = CR THEN 3 ELSE 4
         IN  5 * RowOf(SubSeq(text, 1, Len(text) - 1)) + v

\* doImport from file.open to the end; file.readable is the outcome of
\* file.open, file.content what readAll and fromUtf8 give.
doImportFile(d, tableName, file, lineId, opened, failing) ==
    IF ~file.readable
    THEN [db |-> d, effects |-> <<>>,
          result |-> ImportResult([NewImport(0) EXCEPT !.errors = <<"Cannot open file">>])]
    ELSE LET texts == BarcodeTexts(file.content)
         IN  doImport(d, tableName, [k \in 1..Len(texts) |-> RowOf(texts[k])], lineId,
                      opened, failing)

Files == [readable : {TRUE}, content : Texts] \cup {[readable |-> FALSE, content |-> <<>>]}

ImportFile(tableName, file, lineId, opened, failing) ==
    /\ Cardinality(DOMAIN Table(db, tableName)) < MaxJobRows
    /\ JobReturns(doImportFile(db, tableName, file, lineId, opened, failing), "doImport",
                  <<tableName, file, lineId, opened, failing>>)

\* In SpecJobs no statement of an export transaction fails.
ExportBoxesJob(boxIds, opened, rendered, stored) ==
    JobReturns(doExportBoxes(db, boxIds, opened, rendered, stored, 0), "doExportBoxes",
               <<boxIds, opened, rendered, stored>>)

ExportPalletsJob(palletIds, opened, rendered, stored) ==
    JobReturns(doExportPallets(db, palletIds, opened, rendered, stored, 0), "doExportPallets",
               <<palletIds, opened, rendered, stored>>)

\* The database after two items have gone into two boxes, both boxes are
\* sealed, box 1 stands on the pallet and the pallet is complete.
PackedSeed ==
    LET d0 == Seeded(NumItems, NumBoxes)
        d1 == assignItemToBox(d0, "", 1, 1).db
        d2 == assignItemToBox(d1, "", 2, 2).db
        d3 == sealBox(sealBox(d2, "", 1).db, "", 2).db
        d4 == assignBoxToPallet(d3, "", 1, 1).db
    IN  completePallet(d4, "", 1).db

InitJobs ==
    /\ db = PackedSeed
    /\ lastError = [c \in Clients |-> ""]
    /\ ret = NoCall
    /\ client = [c \in Clients |-> IdleClient]
    /\ job = [j \in Jobs |-> IdleJob]
    /\ conn = [c \in Clients |-> TRUE]
    /\ signals = [c \in Clients |-> <<>>]
    /\ window = NoWindow

NextJobs ==
    \/ \E f \in Files, o \in BOOLEAN :
         \E x \in Failing(BarcodeTexts(f.content), o) : ImportFile("items", f, 1, o, x)
    \/ \E bs \in SeqsUpTo(BoxIds, MaxIds), o \in BOOLEAN, r \in BOOLEAN, s \in BOOLEAN :
           ExportBoxesJob(bs, o, r, s)
    \/ \E ps \in SeqsUpTo(PalletIds, MaxIds), o \in BOOLEAN, r \in BOOLEAN, s \in BOOLEAN :
           ExportPalletsJob(ps, o, r, s)
    \/ ConnectionDrops(MainClient)
    \/ Return

SpecJobs == InitJobs /\ [][NextJobs]_vars

\* ------------------------------------------------ barcodes in export XML
\* A barcode is the sequence of its character codes: the GS1 group separator,
\* the digits 9 and 3, and one more digit.
GS == 29
Digit9 == 57
Digit3 == 51

BarcodeChars == {GS, Digit9, Digit3, Digit1}

Barcodes == SeqsUpTo(BarcodeChars, MaxBarcodeLen)

\* QString::indexOf: the first index (from 0) at which pat occurs, or -1
indexOf(s, pat) ==
    LET at == {k \in 0..(Len(s) - Len(pat)) : SubSeq(s, k + 1, k + Len(pat)) = pat}
    IN  IF at = {} THEN -1 ELSE CHOOSE k \in at : \A j \in at : k <= j

\* QString::left
left(s, n) == SubSeq(s, 1, n)

\* Faulty variant of cleanBarcodeForExport: the cut is at the last separator.
cleanBarcodeLastSeparator(barcode) ==
    LET seps == {k \in 0..(Len(barcode) - 1) : barcode[k + 1] = GS}
        separatorPos == IF seps = {} THEN -1
                        ELSE CHOOSE k \in seps : \A j \in seps : j <= k
        ai93Pos == indexOf(barcode, <<Digit9, Digit3>>)
    IN  IF barcode = <<>> THEN barcode
        ELSE IF separatorPos # -1 THEN left(barcode, separatorPos)
        ELSE IF ai93Pos > 0 /\ ai93Pos >= ai93Min THEN left(barcode, ai93Pos)
        ELSE barcode

\* Faulty variant of cleanBarcodeForExport: the "93" heuristic runs first.
cleanBarcodeHeuristicFirst(barcode) ==
    LET separatorPos == indexOf(barcode, <<GS>>)
        ai93Pos == indexOf(barcode, <<Digit9, Digit3>>)
    IN  IF barcode = <<>> THEN barcode
        ELSE IF ai93Pos > 0 /\ ai93Pos >= ai93Min THEN left(barcode, ai93Pos)
        ELSE IF separatorPos # -1 THEN left(barcode, separatorPos)
        ELSE barcode

cleanBarcodeForExport(barcode) ==
    LET separatorPos == indexOf(barcode, <<GS>>)
        ai93Pos == indexOf(barcode, <<Digit9, Digit3>>)
    IN  IF barcode = <<>> THEN barcode
        ELSE IF separatorPos # -1 THEN left(barcode, separatorPos)
        ELSE IF ai93Pos > 0 /\ ai93Pos >= ai93Min THEN left(barcode, ai93Pos)
        ELSE barcode

\* The XML generators clean the barcode of a snapshot row.
CleanBarcode(barcode) ==
    /\ Quiet
    /\ ret' = [op |-> "cleanBarcodeForExport", args |-> <<barcode>>,
               value |-> cleanBarcodeForExport(barcode)]
    /\ UNCHANGED <<db, lastError, client, job, conn, signals, window>>

NextClean ==
    \/ \E b \in Barcodes : CleanBarcode(b)
    \/ Return

SpecClean == Init /\ [][NextClean]_vars

\* ================================================================ claims
RowsOfItem(d, itemId) ==
    {k \in 1..Len(d.item_box_assignments) : d.item_box_assignments[k][1] = itemId}

RowsOfBox(d, boxId) ==
    {k \in 1..Len(d.pallet_box_assignments) : d.pallet_box_assignments[k][1] = boxId}

NeverLower(t, u) == \A id \in DOMAIN t : id \in DOMAIN u /\ u[id] >= t[id]

\* The barcodes of the snapshot rows of table t that carry document docId.
SnapshotOf(t, docId) == {t[k][2] : k \in {n \in 1..Len(t) : t[n][1] = docId}}

Last(s) == s[Len(s)]

\* C1: no step of any interleaving lowers the status code of an item, a box or
\* a pallet (or removes its row).
C1_StatusNeverDecreases ==
    [][/\ NeverLower(db.items, db'.items)
       /\ NeverLower(db.boxes, db'.boxes)
       /\ NeverLower(db.pallets, db'.pallets)]_vars

\* C2: in every reachable state every item has at most one row in
\* item_box_assignments.
C2_OneBoxPerItem ==
    \A i \in ItemIds : Cardinality(RowsOfItem(db, i)) <= 1

\* C3: in every reachable state every box has at most one row in
\* pallet_box_assignments.
C3_OnePalletPerBox ==
    \A b \in BoxIds : Cardinality(RowsOfBox(db, b)) <= 1

\* C4: assignItemToBox on an Available item and an Empty box returns true,
\* inserts exactly the one assignment row and sets the item to Assigned; a call
\* with the ids of an assignment that already exists returns false and changes
\* no row.
C4_AssignSucceedsOnce ==
    [][ret'.op = "assignItemToBox" =>
         LET i == ret'.args[1]
             b == ret'.args[2]
         IN  /\ (/\ HasRow(db.items, i) /\ db.items[i] = Available
                 /\ HasRow(db.boxes, b) /\ db.boxes[b] = Empty)
                => /\ ret'.value = TRUE
                   /\ db' = [db EXCEPT !.item_box_assignments = Append(@, <<i, b>>),
                                       !.items[i] = Assigned]
             /\ <<i, b>> \in Range(db.item_box_assignments)
                => ret'.value = FALSE /\ db' = db]_vars

C4_Witness ==
    /\ ret.op = "assignItemToBox"
    /\ ret.value = FALSE
    /\ ret.args \in Range(db.item_box_assignments)
    /\ db.boxes[ret.args[2]] = Empty

\* C5: a row of item_box_assignments is committed only while its box is Empty,
\* so no Sealed or Exported box gains an item.
C5_SealedBoxGainsNoItem ==
    [][Len(db'.item_box_assignments) > Len(db.item_box_assignments) =>
         db.boxes[Last(db'.item_box_assignments)[2]] = Empty]_vars

\* C6: a row of pallet_box_assignments is committed only while its box is
\* Sealed and its pallet is New.
C6_PalletRowOnlyWhileEligible ==
    [][Len(db'.pallet_box_assignments) > Len(db.pallet_box_assignments) =>
         /\ db.boxes[Last(db'.pallet_box_assignments)[1]] = Sealed
         /\ db.pallets[Last(db'.pallet_box_assignments)[2]] = New]_vars

Ineligible(t, ids, st) == \E k \in 1..Len(ids) : ~HasRow(t, ids[k]) \/ t[ids[k]] # st

\* C7: a box export whose id list names a box that does not exist or is not
\* Sealed returns success = false and leaves every row as it was: no status
\* changes, no document row and no snapshot row is added.
C7_IneligibleBatchRejected ==
    [][(ret'.op = "doExportBoxes" /\ Ineligible(db.boxes, ret'.args[1], Sealed))
         => ret'.value.success = FALSE /\ db' = db]_vars

C7_Witness ==
    /\ ret.op = "doExportBoxes"
    /\ ret.args[2] = TRUE
    /\ ret.value.success = FALSE
    /\ \E k \in 1..Len(ret.args[1]) : /\ HasRow(db.boxes, ret.args[1][k])
                                      /\ db.boxes[ret.args[1][k]] = Sealed
    /\ \E k \in 1..Len(ret.args[1]) : /\ HasRow(db.boxes, ret.args[1][k])
                                      /\ db.boxes[ret.args[1][k]] = Empty

ItemsInside(d, boxes) ==
    {d.item_box_assignments[k][1] :
        k \in {n \in 1..Len(d.item_box_assignments) : d.item_box_assignments[n][2] \in boxes}}

BoxesUpon(d, pallets) ==
    {d.pallet_box_assignments[k][1] :
        k \in {n \in 1..Len(d.pallet_box_assignments) :
                  d.pallet_box_assignments[n][2] \in pallets}}

Untouched(t, u, ids) == DOMAIN u = DOMAIN t /\ \A id \in DOMAIN t \ ids : u[id] = t[id]

FreshDocument(d, e, docId) ==
    /\ ~HasRow(d.export_documents, docId)
    /\ HasRow(e.export_documents, docId)
    /\ SnapshotOf(d.export_items, docId) = {}
    /\ SnapshotOf(d.export_boxes, docId) = {}
    /\ SnapshotOf(d.export_pallets, docId) = {}

\* C8: a successful box export leaves every targeted box and every item
\* assigned to a targeted box Exported; the snapshot rows of the new document
\* are the barcodes of exactly those boxes and those items; no other item, box
\* or pallet changes status.
C8_BoxExportEffect ==
    [][(ret'.op = "doExportBoxes" /\ ret'.value.success) =>
         LET targets == Range(ret'.args[1])
             inside == ItemsInside(db, targets)
             doc == ret'.value.documentId
         IN  /\ \A b \in targets : db'.boxes[b] = Exported
             /\ \A i \in inside : db'.items[i] = Exported
             /\ FreshDocument(db, db', doc)
             /\ SnapshotOf(db'.export_boxes, doc) = targets
             /\ SnapshotOf(db'.export_items, doc) = inside
             /\ SnapshotOf(db'.export_pallets, doc) = {}
             /\ Untouched(db.boxes, db'.boxes, targets)
             /\ Untouched(db.items, db'.items, inside)
             /\ db'.pallets = db.pallets]_vars

C8_Witness ==
    /\ ret.op = "doExportBoxes"
    /\ ret.value.success
    /\ ret.value.itemsExported = 1
    /\ \E i \in DOMAIN db.items : db.items[i] = Assigned

\* C9: a successful pallet export leaves every targeted pallet, every box
\* assigned to a targeted pallet and every item assigned to one of those boxes
\* Exported, and the snapshot rows of the new document hold the barcodes of
\* exactly those pallets, boxes and items.
C9_PalletExportEffect ==
    [][(ret'.op = "doExportPallets" /\ ret'.value.success) =>
         LET targets == Range(ret'.args[1])
             upon == BoxesUpon(db, targets)
             inside == ItemsInside(db, upon)
             doc == ret'.value.documentId
         IN  /\ \A p \in targets : db'.pallets[p] = Exported
             /\ \A b \in upon : db'.boxes[b] = Exported
             /\ \A i \in inside : db'.items[i] = Exported
             /\ FreshDocument(db, db', doc)
             /\ SnapshotOf(db'.export_pallets, doc) = targets
             /\ SnapshotOf(db'.export_boxes, doc) = upon
             /\ SnapshotOf(db'.export_items, doc) = inside]_vars

C9_Witness ==
    /\ ret.op = "doExportPallets"
    /\ ret.value.success
    /\ Cardinality(SnapshotOf(db.export_boxes, ret.value.documentId)) = 2
    /\ Cardinality(SnapshotOf(db.export_items, ret.value.documentId)) = 2

\* C10: an import run in which some batch INSERT failed leaves every table
\* with exactly the rows it held before the run.
C10_FailedImportPersistsNothing ==
    [][(ret'.op = "doImport" /\ ret'.value.errorCount > 0) => db' = db]_vars

C10_Witness ==
    /\ ret.op = "doImport"
    /\ ret.value.errorCount > 0
    /\ ret.value.importedCount > 0

\* C11: an import run whose connection opens and none of whose statements
\* fails reports total = length of the input, errors = 0, imported = number of
\* distinct input barcodes the table did not hold, skipped = total - imported;
\* afterwards the table holds its old rows as they were plus one row per newly
\* imported barcode, with status 0 and the run's production line, and nothing
\* else in the database has changed.
C11_ImportCounts ==
    [][(ret'.op = "doImport" /\ ret'.args[4] /\ ret'.args[5] = {}) =>
         LET t == ret'.args[1]
             bs == ret'.args[2]
             l == ret'.args[3]
             old == Table(db, t)
             new == Range(bs) \ DOMAIN old
             now == Table(db', t)
             r == ret'.value
         IN  /\ r.totalRecords = Len(bs)
             /\ r.errorCount = 0
             /\ r.importedCount = Cardinality(new)
             /\ r.skippedCount = Len(bs) - Cardinality(new)
             /\ DOMAIN now = DOMAIN old \cup new
             /\ \A id \in DOMAIN old :
                    /\ now[id] = old[id]
                    /\ db'.production_line[t][id] = db.production_line[t][id]
             /\ \A id \in new : now[id] = 0 /\ db'.production_line[t][id] = l
             /\ DOMAIN db'.production_line[t] = DOMAIN now
             /\ \A u \in TableNames \ {t} :
                    /\ Table(db', u) = Table(db, u)
                    /\ db'.production_line[u] = db.production_line[u]
             /\ db'.item_box_assignments = db.item_box_assignments]_vars

\* [A1, A2, A1] into a table that holds A2, already Assigned: the run has
\* imported one barcode and skipped two, and the old row keeps its own line.
C11_Witness ==
    /\ ret.op = "doImport"
    /\ ret.args[1] = "items"
    /\ ret.args[2] = <<1, 2, 1>>
    /\ ret.value.importedCount = 1
    /\ ret.value.skippedCount = 2
    /\ ret.value.errorCount = 0
    /\ db.items[2] = Assigned
    /\ db.production_line.items[1] # db.production_line.items[2]

\* C12: no import run ever counts an error when no statement is made to fail
\* from outside: a barcode that another run holds is skipped, not an error.
\* (No two rows of a table share a barcode: the rows of a table are a function
\* of the barcode, as the unique index on bar_code makes them.)
C12_DuplicateNeverErrors ==
    \A j \in DOMAIN job : job[j].r.errorCount = 0

\* C13: sealBox on a box id that no row of item_box_assignments names (the box
\* may be in any status, or may not exist) returns false, leaves lastError_
\* at "Box is empty - cannot seal" and changes no row.
C13_SealEmptyBoxFails ==
    [][(ret'.op = "sealBox" /\ ItemsInside(db, {ret'.args[1]}) = {}) =>
         /\ ret'.value = FALSE
         /\ lastError'[MainClient] = "Box is empty - cannot seal"
         /\ db' = db]_vars

C13_Witness ==
    /\ ret.op = "sealBox"
    /\ ret.value = FALSE
    /\ lastError[MainClient] = "Box is empty - cannot seal"
    /\ HasRow(db.boxes, ret.args[1])
    /\ db.boxes[ret.args[1]] = Empty
    /\ db.item_box_assignments # <<>>

\* C14: completePallet on a pallet id that no row of pallet_box_assignments
\* names returns false, leaves lastError_ at "Pallet has no boxes" and changes
\* no row.
C14_CompleteEmptyPalletFails ==
    [][(ret'.op = "completePallet" /\ BoxesUpon(db, {ret'.args[1]}) = {}) =>
         /\ ret'.value = FALSE
         /\ lastError'[MainClient] = "Pallet has no boxes"
         /\ db' = db]_vars

C14_Witness ==
    /\ ret.op = "completePallet"
    /\ ret.value = FALSE
    /\ lastError[MainClient] = "Pallet has no boxes"
    /\ HasRow(db.pallets, ret.args[1])
    /\ db.pallets[ret.args[1]] = New
    /\ \E b \in DOMAIN db.boxes : db.boxes[b] = Sealed

\* C15: in every state of every interleaving, a box that is Sealed or Exported
\* has at least one row in item_box_assignments and a pallet that is Complete
\* or Exported has at least one row in pallet_box_assignments.
C15_NoEmptyContainerLeavesInitialStatus ==
    /\ \A b \in DOMAIN db.boxes :
           db.boxes[b] \in {Sealed, Exported} => ItemsInside(db, {b}) # {}
    /\ \A p \in DOMAIN db.pallets :
           db.pallets[p] \in {Complete, Exported} => BoxesUpon(db, {p}) # {}

\* A pallet completed while the other instance is in the middle of a call.
C15_Witness ==
    /\ \E p \in DOMAIN db.pallets : db.pallets[p] = Complete
    /\ \E b \in DOMAIN db.boxes : db.boxes[b] = Sealed
    /\ \E c \in Clients : client[c].pc # "idle"

\* C16: assignItemsToBox returns the number of items it moved from Available to
\* Assigned, which are exactly the ids of the list that were Available rows
\* when the call began (none when the box is missing or not Empty); each of
\* them gains one assignment row to the box, whatever other ids of the list
\* failed, and nothing else changes.
C16_AssignItemsCountsSuccesses ==
    [][ret'.op = "assignItemsToBox" =>
         LET ids == ret'.args[1]
             b == ret'.args[2]
             moved == {i \in DOMAIN db.items :
                          db.items[i] = Available /\ db'.items[i] = Assigned}
             expected == IF HasRow(db.boxes, b) /\ db.boxes[b] = Empty
                         THEN {i \in Range(ids) :
                                  HasRow(db.items, i) /\ db.items[i] = Available}
                         ELSE {}
             old == Len(db.item_box_assignments)
             added == SubSeq(db'.item_box_assignments, old + 1,
                             Len(db'.item_box_assignments))
         IN  /\ ret'.value = Cardinality(moved)
             /\ moved = expected
             /\ SubSeq(db'.item_box_assignments, 1, old) = db.item_box_assignments
             /\ Len(added) = ret'.value
             /\ Range(added) = {<<i, b>> : i \in moved}
             /\ Untouched(db.items, db'.items, moved)
             /\ db' = [db EXCEPT !.items = db'.items,
                                 !.item_box_assignments = db'.item_box_assignments]]_vars

\* A list whose first id does not exist and whose second id is assigned.
C16_Witness ==
    /\ ret.op = "assignItemsToBox"
    /\ Len(ret.args[1]) = 2
    /\ ~HasRow(db.items, ret.args[1][1])
    /\ ret.value = 1
    /\ <<ret.args[1][2], ret.args[2]>> \in Range(db.item_box_assignments)

NotFound == {"Box not found", "Item not found"}

InvalidState == {"Box must be Empty", "Item must be Available"}

\* C17: a failed assignItemToBox changes no row; it reports a not-found error
\* whenever the item id or the box id names no row, whatever the status of the
\* other entity, and an invalid-state error only when both ids name rows.
C17_NotFoundWheneverAnIdIsMissing ==
    [][(ret'.op = "assignItemToBox" /\ ~ret'.value) =>
         LET missing == \/ ~HasRow(db.items, ret'.args[1])
                        \/ ~HasRow(db.boxes, ret'.args[2])
         IN  /\ db' = db
             /\ missing => lastError'[MainClient] \in NotFound
             /\ ~missing => lastError'[MainClient] \in InvalidState]_vars

\* C18: a successful assignItemToBox changes the status of no box, so its box
\* is Empty afterwards as it was before; and a box goes from Empty to Sealed
\* only in a sealBox call on that box.
C18_AssignLeavesBoxEmpty ==
    [][/\ (ret'.op = "assignItemToBox" /\ ret'.value) =>
             /\ db'.boxes = db.boxes
             /\ db'.boxes[ret'.args[2]] = Empty
       /\ \A b \in DOMAIN db.boxes :
             (db.boxes[b] = Empty /\ db'.boxes[b] = Sealed) =>
                 (ret'.op = "sealBox" /\ ret'.args = <<b>>)]_vars

\* The second item has just gone into a box that is still Empty.
C18_Witness ==
    /\ ret.op = "assignItemToBox"
    /\ ret.value = TRUE
    /\ Cardinality(ItemsInside(db, {ret.args[2]})) = 2
    /\ db.boxes[ret.args[2]] = Empty

\* C19: authenticate with an unknown username, with a known username and a
\* wrong hash, or with the right hash of an inactive user returns no user,
\* leaves lastError_ at "Invalid username or PIN" and changes no row: the three
\* failures are the same to the caller.
C19_SameFailureForEveryMismatch ==
    [][ret'.op = "authenticate" =>
         LET n == ret'.args[1]
             h == ret'.args[2]
             known == {u \in DOMAIN db.users : db.users[u].username = n}
             unknownName == known = {}
             wrongHash == known # {} /\ \A u \in known : db.users[u].pin_hash # h
             inactive == \E u \in known : db.users[u].pin_hash = h /\ ~db.users[u].active
         IN  (unknownName \/ wrongHash \/ inactive) =>
                 /\ ret'.value = Nullopt
                 /\ lastError'[MainClient] = "Invalid username or PIN"
                 /\ db' = db]_vars

\* An inactive user has just been turned away although the hash was right.
C19_Witness ==
    /\ ret.op = "authenticate"
    /\ ret.value = Nullopt
    /\ lastError[MainClient] = "Invalid username or PIN"
    /\ \E u \in DOMAIN db.users :
           /\ db.users[u].username = ret.args[1]
           /\ db.users[u].pin_hash = ret.args[2]
           /\ ~db.users[u].active

\* C20: the permissions a successful authenticate returns are exactly those
\* that some active role of the user grants (granted flag true) and that are
\* active themselves, each of them once.
C20_PermissionsOfActiveRolesOnly ==
    [][(ret'.op = "authenticate" /\ ret'.value # Nullopt) =>
         LET u == ret'.value.user.id
             ps == ret'.value.permissions
             due == {p \in DOMAIN db.permissions :
                        /\ db.permissions[p].active
                        /\ \E r \in DOMAIN db.roles :
                               /\ <<u, r>> \in db.user_roles
                               /\ db.roles[r].active
                               /\ <<r, p>> \in DOMAIN db.role_permissions
                               /\ db.role_permissions[<<r, p>>]}
         IN  Range(ps) = due /\ Len(ps) = Cardinality(due)]_vars

\* C21: a synchronous operation called while the shared connection is down
\* makes exactly one reconnect attempt; when the attempt succeeds
\* connectionRestored is emitted and the operation goes on, and when it fails
\* connectionLost is emitted, the failure value is returned and no row changes.
SyncOps == {"assignItemToBox", "assignItemsToBox", "sealBox", "assignBoxToPallet",
            "completePallet"}

FailureValue(op) == IF op = "assignItemsToBox" THEN 0 ELSE FALSE

C21_OneReconnectPerCall ==
    [][(ret'.op \in SyncOps /\ ret'.down) =>
         /\ ret'.attempts = 1
         /\ \/ conn'[MainClient] /\ signals'[MainClient] = <<"connectionRestored">>
            \/ /\ ~conn'[MainClient]
               /\ signals'[MainClient] = <<"connectionLost">>
               /\ ret'.value = FailureValue(ret'.op)
               /\ db' = db]_vars

ExportOps == {"doExportBoxes", "doExportPallets"}

\* The job of ret has input to work on and has been refused its connection.
ConnectionRefused(r) ==
    \/ /\ r.op = "doImport"
       /\ r.args[2].readable
       /\ BarcodeTexts(r.args[2].content) # <<>>
       /\ ~r.args[4]
    \/ /\ r.op \in ExportOps
       /\ r.args[1] # <<>>
       /\ ~r.args[2]

\* C22: an import or export job whose own connection does not open returns an
\* error in its result after the one open it has tried (no second open, no
\* transaction), emits no connectionLost, leaves the shared connection and
\* lastError_ of the caller as they were, and changes no row.
C22_JobWithoutConnectionFails ==
    [][ConnectionRefused(ret') =>
         /\ IF ret'.op = "doImport"
            THEN ret'.value.errors # <<>> /\ ret'.value.importedCount = 0
            ELSE ~ret'.value.success /\ ret'.value.error # ""
         /\ ret'.effects = <<"open">>
         /\ signals' = signals
         /\ conn' = conn
         /\ lastError' = lastError
         /\ db' = db]_vars

\* An export has been refused its connection while the shared connection of
\* the caller is down as well.
C22_Witness ==
    /\ ConnectionRefused(ret)
    /\ ret.op = "doExportBoxes"
    /\ ret.value.error = "Failed to create database connection"
    /\ ~conn[MainClient]
    /\ \A b \in Range(ret.args[1]) : db.boxes[b] = Sealed

\* C23: when the transaction of an export has committed and the XML is then
\* not rendered in full or not stored, the result is the one of the export
\* whose XML steps succeed (success, the new document id, the three counts),
\* and so are the document row, the snapshot rows and the statuses: only
\* xml_content of the new document may differ.
C23_XmlFailureKeepsExport ==
    [][(/\ ret'.op \in ExportOps
        /\ "commit" \in Range(ret'.effects)
        /\ ~(ret'.args[3] /\ ret'.args[4])) =>
         LET full == IF ret'.op = "doExportBoxes"
                     THEN doExportBoxes(db, ret'.args[1], TRUE, TRUE, TRUE, 0)
                     ELSE doExportPallets(db, ret'.args[1], TRUE, TRUE, TRUE, 0)
             doc == db.docSeq + 1
         IN  /\ ret'.value.success
             /\ ret'.value.documentId = doc
             /\ ret'.value = full.result
             /\ HasRow(db'.export_documents, doc)
             /\ [db' EXCEPT !.export_documents[doc].xml_content = "xml"] = full.db]_vars

\* A box export has committed two boxes and two items and its UPDATE of
\* xml_content has failed.
C23_Witness ==
    /\ ret.op = "doExportBoxes"
    /\ ret.value.success
    /\ ~ret.args[4]
    /\ ret.value.boxesExported = 2
    /\ ret.value.itemsExported = 2
    /\ db.export_documents[ret.value.documentId].xml_content = "NULL"
    /\ \A b \in Range(ret.args[1]) : db.boxes[b] = Exported

\* C24: after a successful export whose XML is stored, the row of the new
\* document carries the XML and the hash of the XML: neither xml_content nor
\* xml_hash is NULL.
C24_DocumentCarriesXmlAndHash ==
    [][(ret'.op \in ExportOps /\ ret'.value.success /\ ret'.args[4]) =>
         LET row == db'.export_documents[ret'.value.documentId]
         IN  row.xml_content # "NULL" /\ row.xml_hash # "NULL"]_vars

\* The indexes (from 0) at which "93" occurs in a barcode.
Ai93At(barcode) ==
    {k \in 0..(Len(barcode) - 2) : barcode[k + 1] = Digit9 /\ barcode[k + 2] = Digit3}

\* C25: the cleaned form of a barcode that holds the character 0x1D is the
\* part of the barcode before its first 0x1D (empty when the barcode begins
\* with it), whatever follows and wherever "93" occurs.
C25_CutAtFirstSeparator ==
    [][(ret'.op = "cleanBarcodeForExport" /\ GS \in Range(ret'.args[1])) =>
         LET barcode == ret'.args[1]
         IN  \E k \in 1..Len(barcode) :
                 /\ barcode[k] = GS
                 /\ \A j \in 1..(k - 1) : barcode[j] # GS
                 /\ ret'.value = [j \in 1..(k - 1) |-> barcode[j]]]_vars

\* A barcode with "93" far enough from its start and the separator after it
\* has been cut at the separator.
C25_Witness ==
    /\ ret.op = "cleanBarcodeForExport"
    /\ GS \in Range(ret.args[1])
    /\ \E k \in Ai93At(ret.value) : k >= ai93Min

\* C26: for a barcode without 0x1D, when "93" occurs at an index of at least
\* the minimum the cleaned form is the barcode cut at such an occurrence, also
\* when "93" occurs before the minimum as well; when "93" occurs only below the
\* minimum or not at all the barcode is returned as it is.
C26_CutAt93BeyondMinimum ==
    [][(ret'.op = "cleanBarcodeForExport" /\ GS \notin Range(ret'.args[1])) =>
         LET barcode == ret'.args[1]
             far == {k \in Ai93At(barcode) : k >= ai93Min}
         IN  IF far = {} THEN ret'.value = barcode
             ELSE \E k \in far : ret'.value = [j \in 1..k |-> barcode[j]]]_vars

\* The number of barcodes in the batches of `which`.
RECURSIVE SizeOfBatches(_, _)
SizeOfBatches(barcodes, which) ==
    IF which = {} THEN 0
    ELSE LET k == CHOOSE x \in which : TRUE
         IN  Len(Batch(barcodes, k)) + SizeOfBatches(barcodes, which \ {k})

\* C27: when the INSERT of a batch fails, the run still goes through every
\* batch and reports each as progress, records one error text per failed batch
\* and counts its barcodes as errors; the summary keeps the imported and
\* skipped counts of the batches whose INSERT succeeded, although the
\* transaction is rolled back and no row is added.
C27_FailedBatchKeepsCounts ==
    [][(ret'.op = "doImport" /\ ret'.args[5] # {}) =>
         LET bs == ret'.args[2]
             failing == ret'.args[5]
             n == NumBatches(Len(bs))
             good == (1..n) \ failing
             seen == UNION {Range(Batch(bs, k)) : k \in good}
             v == ret'.value
         IN  /\ v.progress = [k \in 1..n |-> <<Min(k * batchSize, Len(bs)), Len(bs)>>]
             /\ Len(v.errors) = Cardinality(failing)
             /\ v.errorCount = SizeOfBatches(bs, failing)
             /\ v.importedCount = Cardinality(seen \ DOMAIN Table(db, ret'.args[1]))
             /\ v.importedCount + v.skippedCount = SizeOfBatches(bs, good)
             /\ v.totalRecords = Len(bs)
             /\ db' = db]_vars

\* The first batch of a run has imported two rows and skipped none, the second
\* batch has failed, and the table is as empty as before.
C27_Witness ==
    /\ ret.op = "doImport"
    /\ ret.args[5] = {2}
    /\ ret.value.importedCount = 2
    /\ ret.value.skippedCount = 0
    /\ ret.value.errorCount = 1
    /\ Len(ret.value.progress) = 2
    /\ Table(db, ret.args[1]) = <<>>

\* C28: empty input is turned away before any work on the database.  An
\* import whose text holds nothing but blanks and line ends returns the error
\* "No valid barcodes found" with zero records, an export with an empty id list
\* returns its "No ... to export" error; neither opens a connection nor begins
\* a transaction, and no row changes.
C28_EmptyInputRejectedFirst ==
    [][/\ (/\ ret'.op = "doImport"
           /\ ret'.args[2].readable
           /\ \A k \in 1..Len(ret'.args[2].content) : IsSpace(ret'.args[2].content[k]))
          => /\ ret'.value.errors = <<"No valid barcodes found">>
             /\ ret'.value.totalRecords = 0
             /\ ret'.value.importedCount = 0
             /\ ret'.effects = <<>>
             /\ db' = db
       /\ (ret'.op \in ExportOps /\ ret'.args[1] = <<>>)
          => /\ ~ret'.value.success
             /\ ret'.value.error = (IF ret'.op = "doExportBoxes"
                                    THEN "No boxes to export" ELSE "No pallets to export")
             /\ ret'.effects = <<>>
             /\ db' = db]_vars

\* An import of a text of blank lines has returned, with a connection that
\* would have opened.
C28_Witness ==
    /\ ret.op = "doImport"
    /\ ret.args[4]
    /\ LF \in Range(ret.args[2].content)
    /\ Space \in Range(ret.args[2].content)
    /\ ret.value.errors = <<"No valid barcodes found">>
    /\ ret.effects = <<>>

\* The database the two export jobs have started on: no export changes a row
\* of pallet_box_assignments, and the seeds differ in them.
SeedOf(d) ==
    CHOOSE s \in ExportSeeds : s.pallet_box_assignments = d.pallet_box_assignments

\* The export of job j run alone, from start to end, on database d.
Alone(d, j) ==
    IF job[j].mode = BoxExport
    THEN doExportBoxes(d, job[j].ids, TRUE, TRUE, TRUE, 0)
    ELSE doExportPallets(d, job[j].ids, TRUE, TRUE, TRUE, 0)

\* The pallets, boxes and items the target list of job j reaches in d.
Reach(d, j) ==
    LET pallets == IF job[j].mode = PalletExport THEN Range(job[j].ids) ELSE {}
        boxes == IF job[j].mode = BoxExport THEN Range(job[j].ids)
                 ELSE BoxesUpon(d, pallets)
    IN  [pallets |-> pallets, boxes |-> boxes, items |-> ItemsInside(d, boxes)]

Apart(d) ==
    /\ Reach(d, 1).pallets \cap Reach(d, 2).pallets = {}
    /\ Reach(d, 1).boxes \cap Reach(d, 2).boxes = {}
    /\ Reach(d, 1).items \cap Reach(d, 2).items = {}

\* The barcodes of the snapshot rows of document docId, in the order of the rows.
SnapshotRows(t, docId) ==
    LET rows == SelectSeq(t, LAMBDA r : r[1] = docId)
    IN  [k \in 1..Len(rows) |-> rows[k][2]]

\* Job j has returned what result r says, and its snapshot rows in d are those
\* of r's document in e.
SameOutcome(j, d, r, e) ==
    /\ job[j].success = r.success
    /\ job[j].palletsExported = r.palletsExported
    /\ job[j].boxesExported = r.boxesExported
    /\ job[j].itemsExported = r.itemsExported
    /\ r.success =>
           /\ SnapshotRows(d.export_pallets, job[j].docId)
                  = SnapshotRows(e.export_pallets, r.documentId)
           /\ SnapshotRows(d.export_boxes, job[j].docId)
                  = SnapshotRows(e.export_boxes, r.documentId)
           /\ SnapshotRows(d.export_items, job[j].docId)
                  = SnapshotRows(e.export_items, r.documentId)

SameRows(d, e) ==
    /\ d.items = e.items /\ d.boxes = e.boxes /\ d.pallets = e.pallets
    /\ Len(d.export_pallets) = Len(e.export_pallets)
    /\ Len(d.export_boxes) = Len(e.export_boxes)
    /\ Len(d.export_items) = Len(e.export_items)
    /\ DOMAIN d.export_documents = DOMAIN e.export_documents

\* C29: when two export jobs whose target lists reach no common pallet, box or
\* item have both run, interleaved in any way, each has returned what it
\* returns when run alone, and the statuses and the snapshot rows are those
\* the two jobs leave when run one after the other, in the one order and in
\* the other.
C29_ApartExportsDoNotInterfere ==
    ((\A j \in DOMAIN job : job[j].pc = "done") /\ Apart(SeedOf(db))) =>
        LET d0 == SeedOf(db)
            a1 == Alone(d0, 1)
            a2 == Alone(a1.db, 2)
            b2 == Alone(d0, 2)
            b1 == Alone(b2.db, 1)
        IN  /\ job[1].success = Alone(d0, 1).result.success
            /\ job[2].success = Alone(d0, 2).result.success
            /\ SameOutcome(1, db, a1.result, a2.db)
            /\ SameOutcome(2, db, a2.result, a2.db)
            /\ SameOutcome(1, db, b1.result, b1.db)
            /\ SameOutcome(2, db, b2.result, b1.db)
            /\ SameRows(db, a2.db)
            /\ SameRows(db, b1.db)

\* A box export and a pallet export that reach nothing in common have both
\* succeeded, the box export with the lower document id.
C29_Witness ==
    /\ \A j \in DOMAIN job : job[j].pc = "done" /\ job[j].success
    /\ Apart(SeedOf(db))
    /\ job[1].mode = BoxExport
    /\ job[2].mode = PalletExport
    /\ job[1].docId < job[2].docId
    /\ job[2].itemsExported = 1

\* The messages each operation of the assignment engine stores in lastError_.
MessagesOf(op) ==
    IF op = "assignItemToBox"
    THEN {"Box not found", "Box must be Empty", "Item not found", "Item must be Available"}
    ELSE IF op = "sealBox"
    THEN {"Box is empty - cannot seal", "Box not found or not Empty"}
    ELSE IF op = "assignBoxToPallet"
    THEN {"Pallet not found", "Pallet must be New", "Box not found", "Box must be Sealed"}
    ELSE {"Pallet has no boxes", "Pallet not found or not New"}

\* C30: whenever assignItemToBox, sealBox, assignBoxToPallet or completePallet
\* returns false, lastError_ holds a message of that operation about that
\* failure, and not what an earlier call has left there.
C30_FailureSetsLastError ==
    [][(/\ ret'.op \in {"assignItemToBox", "sealBox", "assignBoxToPallet", "completePallet"}
        /\ ret'.value = FALSE)
         => lastError'[MainClient] \in MessagesOf(ret'.op)]_vars

\* ------------------------------------------------ eligibility of an id list
NotEligible == {"Some boxes not found or not sealed", "Some pallets not found or not complete"}

Repeating(ids) == Cardinality(Range(ids)) # Len(ids)

\* The table and the pre-export status an export looks at.
Required(d, op) ==
    IF op = "doExportBoxes" THEN [rows |-> d.boxes, status |-> Sealed]
    ELSE [rows |-> d.pallets, status |-> Complete]

\* C31 as stated: an export that has opened its connection is rejected as
\* NotEligible exactly when one of the supplied ids lacks the required
\* pre-export status, so a list of eligible ids is never rejected.
C31_RejectedExactlyWhenIneligible ==
    [][(ret'.op \in ExportOps /\ ret'.args[1] # <<>> /\ ret'.args[2])
         => ((ret'.value.error \in NotEligible)
               <=> Ineligible(Required(db, ret'.op).rows, ret'.args[1],
                              Required(db, ret'.op).status))]_vars

\* C31 amended: an export that has opened its connection is rejected as
\* NotEligible exactly when one of the supplied ids lacks the required
\* pre-export status or an id occurs more than once in the list; a list of
\* distinct eligible ids is never rejected.
C31_RejectedWhenIneligibleOrRepeating ==
    [][(ret'.op \in ExportOps /\ ret'.args[1] # <<>> /\ ret'.args[2])
         => ((ret'.value.error \in NotEligible)
               <=> \/ Ineligible(Required(db, ret'.op).rows, ret'.args[1],
                                 Required(db, ret'.op).status)
                   \/ Repeating(ret'.args[1]))]_vars

\* A list naming a Sealed box twice has been rejected.
C31_Witness ==
    /\ ret.op = "doExportBoxes"
    /\ ret.args[2]
    /\ Repeating(ret.args[1])
    /\ ~Ineligible(db.boxes, ret.args[1], Sealed)
    /\ ret.value.error \in NotEligible

\* ------------------------------------------------ the order of an export's steps
\* The barcodes some committed snapshot row of table t holds.
Snapshotted(t) == {t[k][2] : k \in 1..Len(t)}

\* The rows of t that the step takes to Exported.
TurnsExported(t, u) == {id \in DOMAIN t \cap DOMAIN u : t[id] # Exported /\ u[id] = Exported}

\* C32: an export goes through eligibility check, document, snapshot of the
\* barcodes, transition to Exported, commit, XML rendering and XML
\* persistence in this order: no item, box or pallet is taken to Exported
\* unless a snapshot row already holds its barcode, and the XML is stored
\* only in a document row that has been committed.
C32_SnapshotBeforeExportedAndXmlLast ==
    [][/\ TurnsExported(db.items, db'.items) \subseteq Snapshotted(db'.export_items)
       /\ TurnsExported(db.boxes, db'.boxes) \subseteq Snapshotted(db'.export_boxes)
       /\ TurnsExported(db.pallets, db'.pallets) \subseteq Snapshotted(db'.export_pallets)
       /\ \A doc \in DOMAIN db'.export_documents :
              db'.export_documents[doc].xml_content # "NULL"
                  => /\ HasRow(db.export_documents, doc)
                     /\ SnapshotOf(db.export_items, doc) = SnapshotOf(db'.export_items, doc)
                     /\ SnapshotOf(db.export_boxes, doc) = SnapshotOf(db'.export_boxes, doc)]_vars

\* ------------------------------------------------ progress of an import
\* An import that has reached the batch loop: its list is not empty and its
\* connection has opened.
InBatchLoop(call) == call.op = "doImport" /\ call.args[2] # <<>> /\ call.args[4]

\* C33: an import of n > 0 candidates that reaches the batch loop reports
\* progress once per batch, failed batches included: there are
\* ceil(n / batchSize) reports, the k-th is (min(k * batchSize, n), n), so the
\* processed counts grow strictly, none exceeds n and the last report is (n, n).
C33_OneProgressReportPerBatch ==
    [][InBatchLoop(ret') =>
         LET n == Len(ret'.args[2])
             progress == ret'.value.progress
         IN  /\ Len(progress) = (n + batchSize - 1) \div batchSize
             /\ \A k \in 1..Len(progress) :
                    /\ progress[k] = <<IF k * batchSize < n THEN k * batchSize ELSE n, n>>
                    /\ k > 1 => progress[k][1] > progress[k - 1][1]
                    /\ progress[k][1] - (IF k > 1 THEN progress[k - 1][1] ELSE 0) <= batchSize
             /\ Last(progress) = <<n, n>>]_vars

\* An import of more than one batch whose last batch has failed has returned.
C33_Witness ==
    /\ InBatchLoop(ret)
    /\ Len(ret.args[2]) > batchSize
    /\ ret.value.errorCount > 0
    /\ ret.value.errorCount < Len(ret.args[2])
    /\ Len(ret.value.progress) = 2

\* ------------------------------------------------ the XML of a box export
\* The bar_code column.  A row is named by a number; its barcode is a GS1 code
\* whose part before the group separator tells the rows of a table apart.
bar_code(tableName, id) ==
    [k \in 1..id |-> IF tableName = "items" THEN Digit1 ELSE Digit9]
        \o <<GS, IF tableName = "items" THEN Digit3 ELSE Digit1>>

\* SELECT ei.bar_code FROM export_items ei JOIN item_box_assignments iba
\* ON ei.bar_code = (SELECT bar_code FROM items WHERE id = iba.item_id)
\* JOIN boxes b ON iba.box_id = b.id WHERE b.bar_code = :boxBarcode
\* AND ei.document_id = :docId: one row per pair of a snapshot row and an
\* assignment row
ItemsOfBoxInDocument(d, docId, box) ==
    LET ei == SnapshotRows(d.export_items, docId)
        iba(item) == SelectSeq(d.item_box_assignments,
                               LAMBDA a : /\ a[1] = item /\ HasRow(d.items, item)
                                          /\ a[2] = box /\ HasRow(d.boxes, box))
    IN  Concat([k \in 1..Len(ei) |-> [n \in 1..Len(iba(ei[k])) |-> ei[k]]])

\* The pack_content elements of the document, each with its pack_code and
\* its cis elements; the header carries no barcode.
generateBoxExportXml(d, docId) ==
    LET boxes == SnapshotRows(d.export_boxes, docId)
        items(box) == ItemsOfBoxInDocument(d, docId, box)
    IN  [k \in 1..Len(boxes) |->
            [pack_code |-> cleanBarcodeForExport(bar_code("boxes", boxes[k])),
             cis |-> [n \in 1..Len(items(boxes[k])) |->
                         cleanBarcodeForExport(bar_code("items", items(boxes[k])[n]))]]]

Count(s, x) == Cardinality({k \in 1..Len(s) : s[k] = x})

\* The XML holds one pack_content per snapshotted box of the document and
\* in it one cis per item assigned to the box.
OnePackPerBoxOneCisPerItem(xml, d, docId) ==
    /\ Len(xml) = Cardinality(SnapshotOf(d.export_boxes, docId))
    /\ \A b \in SnapshotOf(d.export_boxes, docId) :
         LET code == cleanBarcodeForExport(bar_code("boxes", b))
             packs == SelectSeq(xml, LAMBDA p : p.pack_code = code)
         IN  /\ Len(packs) = 1
             /\ Len(packs[1].cis) = Cardinality(ItemsInside(d, {b}))
             /\ \A i \in DOMAIN d.items :
                    Count(packs[1].cis, cleanBarcodeForExport(bar_code("items", i)))
                        = IF i \in ItemsInside(d, {b}) THEN 1 ELSE 0

\* C34: the XML a box export renders holds exactly one pack_content per box
\* snapshotted for the document, with the cleaned barcode of the box as
\* pack_code, and in it exactly one cis per item assigned to that box, with
\* the cleaned barcode of the item: no item under a box it is not in, none
\* missing.
C34_XmlMirrorsBoxes ==
    [][\A j \in DOMAIN job :
          (job[j].pc = "xml" /\ job'[j].pc # "xml" /\ job[j].mode = BoxExport)
              => OnePackPerBoxOneCisPerItem(generateBoxExportXml(db, job[j].docId),
                                            db, job[j].docId)]_vars

\* ------------------------------------------------ one document per barcode
\* The documents whose snapshot rows in table t hold the barcode.
DocumentsOf(t, barcode) == {t[k][1] : k \in {n \in 1..Len(t) : t[n][2] = barcode}}

\* C35: every item, box and pallet barcode stands in the snapshot rows of at
\* most one export document: what is Exported is never snapshotted again.
C35_OneDocumentPerBarcode ==
    /\ \A i \in DOMAIN db.items : Cardinality(DocumentsOf(db.export_items, i)) <= 1
    /\ \A b \in DOMAIN db.boxes : Cardinality(DocumentsOf(db.export_boxes, b)) <= 1
    /\ \A p \in DOMAIN db.pallets : Cardinality(DocumentsOf(db.export_pallets, p)) <= 1

\* ------------------------------------------------ exports whose statements fail
\* An export runs on the packed database and any statement after the
\* eligibility count may fail.  The id sequence bounds the runs.
MaxDocs == 3

ExportBoxesFailing(boxIds, failed) ==
    /\ db.docSeq < MaxDocs
    /\ JobReturns(doExportBoxes(db, boxIds, TRUE, TRUE, TRUE, failed), "doExportBoxes",
                  <<boxIds, failed>>)

ExportPalletsFailing(palletIds, failed) ==
    /\ db.docSeq < MaxDocs
    /\ JobReturns(doExportPallets(db, palletIds, TRUE, TRUE, TRUE, failed), "doExportPallets",
                  <<palletIds, failed>>)

NextExportFail ==
    \/ \E bs \in SeqsUpTo(BoxIds, MaxIds), f \in 0..Len(BoxExportErrors) :
           ExportBoxesFailing(bs, f)
    \/ \E ps \in SeqsUpTo(PalletIds, MaxIds), f \in 0..Len(PalletExportErrors) :
           ExportPalletsFailing(ps, f)
    \/ Return

SpecExportFail == InitJobs /\ [][NextExportFail]_vars

StatementFailed(call) ==
    /\ call.op \in ExportOps
    /\ call.value.error \in Range(BoxExportErrors) \cup Range(PalletExportErrors)

\* C36: when a statement of an export after the eligibility check fails
\* (the document INSERT, a snapshot INSERT or a status UPDATE), the
\* transaction is rolled back: the result has success = false and no document
\* row, no snapshot row and no status change of the run is left.
C36_FailedStatementRollsBack ==
    [][StatementFailed(ret') =>
         /\ ret'.value.success = FALSE
         /\ ret'.effects = <<"open", "transaction", "rollback">>
         /\ [db' EXCEPT !.docSeq = db.docSeq] = db]_vars

\* The last UPDATE of a box export has failed after the snapshots were
\* written, and nothing of the run is left.
C36_Witness ==
    /\ ret.op = "doExportBoxes"
    /\ ret.value.error = "Failed to update item statuses"
    /\ ret.value.boxesExported > 0
    /\ ret.value.itemsExported > 0
    /\ db.export_documents = <<>>
    /\ db.export_boxes = <<>>
    /\ \A b \in Range(ret.args[1]) : db.boxes[b] = Sealed

\* ------------------------------------------------ rows an import finds
\* Every row of d is in e with the same status and production line.
RowsKept(d, e) ==
    \A t \in TableNames :
        \A id \in DOMAIN Table(d, t) :
            /\ HasRow(Table(e, t), id)
            /\ Table(e, t)[id] = Table(d, t)[id]
            /\ e.production_line[t][id] = d.production_line[t][id]

\* C37: an import modifies no existing row: a barcode that is already in the
\* target table keeps its status and production line, so the row of an
\* Assigned or Exported entity is not set back to its initial status.
C37_ImportKeepsExistingRows ==
    [][ret'.op = "doImport" => RowsKept(db, db')]_vars

\* An import that has committed new rows has named the barcode of an Assigned
\* item, under another production line.
C37_Witness ==
    /\ ret.op = "doImport"
    /\ ret.value.importedCount > 0
    /\ ret.value.skippedCount > 0
    /\ ret.value.errorCount = 0
    /\ \E k \in 1..Len(ret.args[2]) :
          /\ HasRow(Table(db, ret.args[1]), ret.args[2][k])
          /\ Table(db, ret.args[1])[ret.args[2][k]] = Assigned
          /\ db.production_line[ret.args[1]][ret.args[2][k]] # ret.args[3]

\* C38: the summary of an import that has reached the batch loop accounts for
\* every candidate: importedCount + skippedCount + errorCount = totalRecords,
\* whichever batches fail, a failed batch counting with its whole size.
C38_CountsAddUp ==
    [][InBatchLoop(ret') =>
         /\ ret'.value.totalRecords = Len(ret'.args[2])
         /\ ret'.value.importedCount + ret'.value.skippedCount + ret'.value.errorCount
                = ret'.value.totalRecords]_vars

\* An import of two batches has returned: the first has inserted a row and
\* skipped one, the second has failed.
C38_Witness ==
    /\ InBatchLoop(ret)
    /\ ret.value.importedCount > 0
    /\ ret.value.skippedCount > 0
    /\ ret.value.errorCount > 0

\* ------------------------------------------------ the main window
\* The main window of the first instance listens to connectionLost and
\* connectionRestored of its DbService; the connections are direct, so a slot
\* runs inside the call that emits.  A handler works on a record of what it
\* reads and writes: the window's fields w, the shared connection, lastError_,
\* the database and the signals emitted so far.
MaxAttempts == 2
MaxPresses == 2

Desk ==
    [w |-> window, conn |-> conn[MainClient], lastError |-> lastError[MainClient],
     db |-> db, signals |-> <<>>, ok |-> TRUE]

\* Faulty variant of onConnectionLost: the user stays logged in.
onConnectionLostKeepsLogin(w) == [w EXCEPT !.connected_ = FALSE]

\* onConnectionLost; its updateState reads no statistics, loggedIn_ being false.
onConnectionLost(w) ==
    [w EXCEPT !.connected_ = FALSE, !.loggedIn_ = FALSE, !.currentUser_ = Nullopt]

\* onConnectionRestored; the getStats of its updateState finds the connection
\* open.
onConnectionRestored(w) == [w EXCEPT !.connected_ = TRUE]

RECURSIVE Deliver(_, _)
Deliver(w, emitted) ==
    IF emitted = <<>> THEN w
    ELSE Deliver(IF Head(emitted) = "connectionLost" THEN onConnectionLost(w)
                 ELSE onConnectionRestored(w),
                 Tail(emitted))

\* The ensureConnected that opens a synchronous DbService call of the
\* window; net.dropped says whether the connection has ended since the last
\* call, net.reachable whether an open succeeds now.
Called(st, net) ==
    LET s == [conn |-> st.conn /\ ~net.dropped, lastError |-> st.lastError,
              signals |-> <<>>, attempts |-> 0, ok |-> TRUE]
        e == ensureConnected(s, net.reachable)
    IN  [st EXCEPT !.conn = e.conn, !.lastError = e.lastError, !.ok = e.ok,
                   !.signals = @ \o e.signals, !.w = Deliver(@, e.signals)]

\* updateState: updateStatsDisplay calls getStats when a user is logged in.
updateState(st, net) ==
    IF st.w.loggedIn_ /\ st.w.currentUser_ # Nullopt THEN Called(st, net) ELSE st

\* LoginDialog::exec: every press of Login calls authenticate; the first
\* success accepts the dialog, and after the last attempt the user cancels.
RECURSIVE LoginDialog(_, _)
LoginDialog(st, attempts) ==
    IF attempts = <<>> THEN [st |-> st, authUser_ |-> Nullopt]
    ELSE LET c == Called(st, Head(attempts).net)
             r == authenticate(c.db, c.lastError, Head(attempts).username,
                               Head(attempts).pinHash)
             q == [c EXCEPT !.db = r.db, !.lastError = r.lastError]
         IN  IF ~c.ok THEN LoginDialog(c, Tail(attempts))
             ELSE IF r.user # Nullopt THEN [st |-> q, authUser_ |-> r.user]
             ELSE LoginDialog(q, Tail(attempts))

onLoginLogout(st, reply, attempts, net) ==
    IF st.w.loggedIn_
    THEN IF reply
         THEN updateState([st EXCEPT !.w.loggedIn_ = FALSE, !.w.currentUser_ = Nullopt], net)
         ELSE st
    ELSE IF ~st.w.connected_ THEN st
    ELSE LET dialog == LoginDialog(st, attempts)
         IN  IF dialog.authUser_ # Nullopt
             THEN updateState([dialog.st EXCEPT !.w.currentUser_ = dialog.authUser_,
                                                !.w.loggedIn_ = TRUE], net)
             ELSE dialog.st

\* ConfigDialog::exec: Connect is enabled while the dialog's connected_ is
\* false, Disconnect while it is true.
RECURSIVE ConfigDialog(_, _, _)
ConfigDialog(st, connected_, presses) ==
    IF presses = <<>> THEN [st |-> st, connected_ |-> connected_]
    ELSE IF Head(presses).button = "connect" /\ ~connected_
    THEN ConfigDialog([st EXCEPT !.conn = Head(presses).reachable,
                                 !.lastError = IF Head(presses).reachable THEN @
                                               ELSE "connection failed"],
                      Head(presses).reachable, Tail(presses))
    ELSE IF Head(presses).button = "disconnect" /\ connected_
    THEN ConfigDialog([st EXCEPT !.conn = FALSE], FALSE, Tail(presses))
    ELSE ConfigDialog(st, connected_, Tail(presses))

onConfig(st, reply, presses, accepted, net) ==
    IF st.w.connected_ /\ ~reply THEN st
    ELSE LET s1 == IF st.w.connected_
                   THEN [st EXCEPT !.conn = FALSE, !.w = onConnectionLost(@)]
                   ELSE st
             dialog == ConfigDialog(s1, s1.conn, presses)
         IN  IF accepted
             THEN updateState([dialog.st EXCEPT !.w.connected_ = dialog.connected_], net)
             ELSE dialog.st

onRefreshStats(st, net) ==
    IF ~st.w.connected_ THEN st ELSE updateState(st, net)

\* A handler of the window has run to its end; ret names it, with the fields
\* of the window it has found.
Handled(st, op, args) ==
    /\ Quiet
    /\ window' = st.w
    /\ db' = st.db
    /\ conn' = [conn EXCEPT ![MainClient] = st.conn]
    /\ lastError' = [lastError EXCEPT ![MainClient] = st.lastError]
    /\ signals' = [signals EXCEPT ![MainClient] = st.signals]
    /\ ret' = [op |-> op, args |-> args, value |-> window]
    /\ UNCHANGED <<client, job>>

Nets == [dropped : BOOLEAN, reachable : BOOLEAN]

WindowUsers == {1}

Attempts == [net : Nets, username : WindowUsers, pinHash : Hashes]

Presses == [button : {"connect", "disconnect"}, reachable : BOOLEAN]

LoginLogout(reply, attempts, net) ==
    Handled(onLoginLogout(Desk, reply, attempts, net), "onLoginLogout",
            <<reply, attempts, net>>)

Config(reply, presses, accepted, net) ==
    Handled(onConfig(Desk, reply, presses, accepted, net), "onConfig",
            <<reply, presses, accepted, net>>)

RefreshStats(net) == Handled(onRefreshStats(Desk, net), "onRefreshStats", <<net>>)

\* One active user, whose PIN hash is 1; the constructor's tryAutoConnect has
\* connected or not.
InitWindow ==
    /\ db = [EmptyDb EXCEPT !.users = [u \in WindowUsers |->
                                          [username |-> u, pin_hash |-> u, active |-> TRUE,
                                           last_login |-> "NULL"]]]
    /\ lastError = [c \in Clients |-> ""]
    /\ ret = NoCall
    /\ client = [c \in Clients |-> IdleClient]
    /\ job = [j \in Jobs |-> IdleJob]
    /\ conn \in {f \in [Clients -> BOOLEAN] : \A c \in Clients \ {MainClient} : f[c]}
    /\ signals = [c \in Clients |-> <<>>]
    /\ window = [NoWindow EXCEPT !.connected_ = conn[MainClient]]

NextWindow ==
    \/ \E reply \in BOOLEAN, as \in SeqsUpTo(Attempts, MaxAttempts), net \in Nets :
           LoginLogout(reply, as, net)
    \/ \E reply \in BOOLEAN, ps \in SeqsUpTo(Presses, MaxPresses), ok \in BOOLEAN,
          net \in Nets : Config(reply, ps, ok, net)
    \/ \E net \in Nets : RefreshStats(net)
    \/ ConnectionDrops(MainClient)
    \/ Return

SpecWindow == InitWindow /\ [][NextWindow]_vars

WindowOps == {"onLoginLogout", "onConfig", "onRefreshStats"}

\* C39: after every handler of the main window (login, logout, configuration
\* change, with the connectionLost and connectionRestored they receive),
\* loggedIn_ implies connected_ and loggedIn_ holds exactly when currentUser_
\* holds a user; a handler whose last signal is connectionLost leaves the user
\* logged out, and connectionRestored logs no one in: the window passes from
\* logged out to logged in only in onLoginLogout, by an attempt whose
\* credentials match a user.
C39_LoggedInOnlyWhileConnected ==
    [][ret'.op \in WindowOps =>
         /\ window'.loggedIn_ => window'.connected_
         /\ window'.loggedIn_ <=> window'.currentUser_ # Nullopt
         /\ (signals'[MainClient] # <<>> /\ Last(signals'[MainClient]) = "connectionLost")
               => ~window'.loggedIn_ /\ ~window'.connected_
         /\ (window'.loggedIn_ /\ ~window.loggedIn_)
               => /\ ret'.op = "onLoginLogout"
                  /\ \E k \in DOMAIN ret'.args[2] :
                        MatchingUsers(db, ret'.args[2][k].username,
                                      ret'.args[2][k].pinHash) # {}]_vars

\* A refresh has found the connection lost while a user was logged in: the
\* user is logged out and the window disconnected.
C39_Witness ==
    /\ ret.op = "onRefreshStats"
    /\ ret.value.loggedIn_
    /\ signals[MainClient] = <<"connectionLost">>
    /\ ~window.connected_
    /\ ~window.loggedIn_
    /\ window.currentUser_ = Nullopt

\* ------------------------------------------------ cleaning a cleaned barcode
\* C40: cleaning the cleaned form of a barcode gives the cleaned form again.
C40_CleaningIsIdempotent ==
    [][ret'.op = "cleanBarcodeForExport" =>
         cleanBarcodeForExport(ret'.value) = ret'.value]_vars

\* C40 as it holds: cleaning the cleaned form gives the cleaned form again,
\* except for a barcode that holds 0x1D and whose part before the first 0x1D
\* has its first "93" at an index of at least the minimum: the second cleaning
\* cuts that part at the "93".
C40_IdempotentUnlessCutAtSeparatorLeaves93 ==
    [][ret'.op = "cleanBarcodeForExport" =>
         LET barcode == ret'.args[1]
             once == ret'.value
             twice == cleanBarcodeForExport(once)
             at == Ai93At(once)
             first == CHOOSE k \in at : \A j \in at : k <= j
         IN  IF GS \in Range(barcode) /\ at # {} /\ first > 0 /\ first >= ai93Min
             THEN twice = [j \in 1..first |-> once[j]] /\ twice # once
             ELSE twice = once]_vars

\* A barcode without 0x1D has been cut at its "93", and cleaning the result
\* changes nothing.
C40_Witness ==
    /\ ret.op = "cleanBarcodeForExport"
    /\ GS \notin Range(ret.args[1])
    /\ ret.value # ret.args[1]
    /\ Len(ret.value) >= ai93Min
    /\ cleanBarcodeForExport(ret.value) = ret.value

====
